---- MODULE Spec2Model ----
(***************************************************************************)
(* The transactional investment ledger of the portfolio application        *)
(* (src/src/controllers/investmentController.js): concurrent request       *)
(* handlers that buy and sell whole shares against one cash account per    *)
(* user, over a relational store with transactions and row locks.          *)
(*                                                                         *)
(* Money is counted in cents.  An oracle price is counted in tenths of a   *)
(* cent, so that a price with more than two decimal digits exists and      *)
(* toFixed(2) has something to round.  toFixed(2) rounds to the nearest    *)
(* cent, a tie going up; the binary representation error of a JavaScript   *)
(* double is not modelled.                                                 *)
(*                                                                         *)
(* The store is modelled as the committed rows, one pending write set per  *)
(* open transaction, and exclusive row locks: a read with `lock: true`     *)
(* (SELECT ... FOR UPDATE) and every write take the row's lock, wait while *)
(* another transaction holds it, and see the latest committed row; the     *)
(* locks are released at commit or rollback.                               *)
(***************************************************************************)
EXTENDS Integers, Sequences, FiniteSets, TLC

\* ------------------------------------------------------------ bounds
NumProcs == 2          \* concurrent request handlers
NumUsers == 2          \* user accounts
MaxOps == 3            \* requests started in one behaviour of one user's buys and sells
MaxOpsAll == 2         \* requests started in one behaviour of every handler
MaxFailures == 1       \* injected storage failures in one behaviour
MaxQty == 2            \* largest quantity a request names
MaxId == 2             \* largest investment id a request names
InitCash == 400        \* cents a new account starts with
InitQty == 2           \* shares of the position a behaviour may start with
PriceLow == 1000       \* oracle price 1.000
PriceHigh == 1519      \* oracle price 1.519
PriceTie == 1124       \* oracle price 1.124: two shares cost 2.248, stored as 2.25
Deposit == 100         \* cents an addCash request adds
MaxLimit == 2          \* largest page size a history request names
MaxOffset == 1         \* largest offset a history request names
MaxOpsRead == 2        \* requests started in one behaviour of trades and reads
MaxOpsCash == 2        \* requests started in one behaviour of trades and deposits
MaxOpsBuy == 2         \* requests started in one behaviour of the two buy entry points
MaxDate == 1           \* latest clock reading of a behaviour, which starts at 0
MaxOpsFlow == 3        \* requests started in one behaviour of the investment flow
MaxOpsPrice == 3       \* requests started in one behaviour of trades and position reads
MaxCalls == 2          \* updateCashBalance calls in one behaviour of the header
MaxFetches == 2        \* balance fetches of the header in flight at once
maxInitAttempts == 5   \* this.maxInitAttempts
RetryClock == 2        \* the retry timers that fired are counted modulo this

Procs == 1..NumProcs
Users == 1..NumUsers
Symbols == {"AAPL", "MSFT"}
Keys == Users \X Symbols
Quantities == 0..MaxQty
Ids == 1..MaxId
TheUser == CHOOSE u \in Users : \A v \in Users : u <= v
TheSymbol == "AAPL"
\* req.body.symbol as a client may send it: missing (""), upper case, lower case
SentSymbols == {"", "AAPL", "aapl", "MSFT"}
\* String.prototype.toUpperCase
ToUpperCase(s) == IF s = "aapl" THEN "AAPL" ELSE s
\* the symbol column as the store compares it in a where clause and in the
\* unique index: without regard to letter case
Collated(s) == ToUpperCase(s)
Prices == {PriceLow, PriceHigh}
\* the investment flow: an account of 5000.00 buys 10 shares quoted at 150.00
\* and sells 5 of them at the same quote (cash in cents, quotes in tenths of a
\* cent)
FlowSymbol == "MSFT"
FlowCash == 5000 * 100
FlowPrice == 150 * 1000
FlowBuyQuantity == 10
FlowSellQuantity == 5
\* the prices the oracle may quote for a symbol
Quotes(symbol) == IF symbol = FlowSymbol THEN {PriceTie, FlowPrice} ELSE Prices
\* what financeAPI.getStockPrice can answer: a price, a price that is not
\* positive, no data (null), or an exception
OracleAnswers ==
    {[kind |-> "data", price |-> x] : x \in Prices \cup {0}}
        \cup {[kind |-> "null", price |-> 0], [kind |-> "throw", price |-> 0]}

\* getStockPrice of a missing symbol resolves to null
OracleAnswersFor(symbol) ==
    IF symbol = "" THEN {[kind |-> "null", price |-> 0]}
    ELSE {[kind |-> "data", price |-> x] : x \in Quotes(symbol) \cup {0}}
            \cup {[kind |-> "null", price |-> 0], [kind |-> "throw", price |-> 0]}

VARIABLES
    cash,     \* users.cashBalance, committed, per user
    inv,      \* investments rows, committed, per (userId, symbol)
    nextId,   \* investments.id AUTO_INCREMENT
    log,      \* transactions rows, committed, in insertion order
    lock,     \* row -> the process whose transaction holds its lock, or 0
    pc,       \* per process: the await it is suspended at
    req,      \* per process: the request being handled
    loc,      \* per process: the handler's local constants
    tx,       \* per process: its transaction (state and pending writes)
    res,      \* the response sent since the last request began, with its request
    ops,      \* requests started so far
    fails,    \* storage failures injected so far
    headerLoader  \* the page's HeaderLoader instance, its timers and the header's text

vars == <<cash, inv, nextId, log, lock, pc, req, loc, tx, res, ops, fails, headerLoader>>
\* the state of the server
server == <<cash, inv, nextId, log, lock, pc, req, loc, tx, res, ops, fails>>
Committed == <<cash, inv, log>>

\* ------------------------------------------------------------ numbers
\* Number.prototype.toFixed(2) of n/d, in cents when n/d is in cents
RoundDiv(n, d) == IF n >= 0 THEN (2 * n + d) \div (2 * d)
                  ELSE 0 - ((2 * (0 - n) + d) \div (2 * d))
\* parseFloat(x.toFixed(2)) of an oracle price: tenths of a cent to cents
Round2Price(p) == RoundDiv(p, 10)
\* the cost of one share whatever the quantity
TotalCostOfOneShare(p, q) == RoundDiv(p, 10)
\* parseFloat((stockPrice * purchaseQuantity).toFixed(2))
TotalCostOf(p, q) == RoundDiv(p * q, 10)

\* ------------------------------------------------------------ rows
NoRow == [id |-> 0, quantity |-> 0, purchasePrice |-> 0, currentPrice |-> 0,
          totalInvested |-> 0]
NoTx == [st |-> "none", cash |-> <<>>, invw |-> <<>>, logw |-> <<>>]
NoLoc == [price |-> 0, stockPrice |-> 0, total |-> 0, userCash |-> 0, key |-> <<>>,
          row |-> NoRow, basis |-> 0, profitLoss |-> 0]
NoReq == [op |-> "none", userId |-> 0, symbol |-> "", id |-> 0, quantity |-> 0,
          amount |-> 0, half |-> 0, startLog |-> 0]
NoRes == [status |-> 0, kind |-> "none", proc |-> 0, req |-> NoReq]

UserRow(u) == <<"user", u>>
InvRow(k) == <<"inv", k>>
Rows == {UserRow(u) : u \in Users} \cup {InvRow(k) : k \in Keys}

\* `lock: true` without effect: a locking read never waits
CanLockAlways(p, r) == TRUE

\* a row lock can be taken by p: free, or already held by p's transaction
CanLock(p, r) == lock[r] \in {0, p}
\* the locks of p's transaction are released when it finishes
Released(p) == [r \in Rows |-> IF lock[r] = p THEN 0 ELSE lock[r]]

\* the pending position writes ws of a transaction applied to the rows f
RECURSIVE ApplyInv(_, _)
ApplyInv(f, ws) ==
    IF ws = <<>> THEN f
    ELSE ApplyInv([f EXCEPT ![ws[1][1]] = ws[1][2]], Tail(ws))

\* the transactions rows of one side ("BUY", "SELL") of user u, as indices of log
RecordsOf(u, side) ==
    {i \in 1..Len(log) : log[i].userId = u /\ log[i].transactionType = side}

RECURSIVE SumOver(_, _)
\* the sum of f[i] over the finite set S
SumOver(S, f) ==
    IF S = {} THEN 0
    ELSE LET i == CHOOSE j \in S : TRUE IN f[i] + SumOver(S \ {i}, f)

\* ------------------------------------------------------------ requests
BuyRequests ==
    {[op |-> "buy", userId |-> u, symbol |-> s, id |-> 0, quantity |-> q,
      amount |-> 0, half |-> 0, startLog |-> 0] :
        u \in Users, s \in {TheSymbol}, q \in Quantities}
SellRequests ==
    {[op |-> "sell", userId |-> u, symbol |-> "", id |-> i, quantity |-> q,
      amount |-> 0, half |-> 0, startLog |-> 0] :
        u \in Users, i \in Ids, q \in Quantities}
\* req.body.quantity of createInvestment is used as sent: whole shares, or the
\* half share 0.5 (quantity 0 with half 1)
CreateRequests ==
    {[op |-> "create", userId |-> u, symbol |-> s, id |-> 0, quantity |-> qh[1],
      amount |-> 0, half |-> qh[2], startLog |-> 0] :
        u \in Users, s \in {TheSymbol}, qh \in (Quantities \X {0}) \cup {<<0, 1>>}}
\* the requests of the two buy entry points with the symbol as sent
BuyPathRequests ==
    {[r EXCEPT !.symbol = s] : r \in BuyRequests \cup CreateRequests, s \in SentSymbols}
AddCashRequests ==
    {[op |-> "addCash", userId |-> u, symbol |-> "", id |-> 0, quantity |-> 0,
      amount |-> a, half |-> 0, startLog |-> 0] :
        u \in Users, a \in {0, Deposit}}
DeleteRequests ==
    {[NoReq EXCEPT !.op = "delete", !.userId = u, !.id = i] : u \in Users, i \in Ids}
CashBalanceRequests == {[NoReq EXCEPT !.op = "cashBalance", !.userId = u] : u \in Users}
AllInvestmentsRequests == {[NoReq EXCEPT !.op = "all", !.userId = u] : u \in Users}
InvestmentByIdRequests ==
    {[NoReq EXCEPT !.op = "byId", !.userId = u, !.id = i] : u \in Users, i \in Ids}
\* req.query of getTransactionHistory: type, limit and offset
HistoryTypes == {"", "BUY", "SELL"}
HistoryRequests ==
    {[type |-> t, limit |-> l, offset |-> o] @@ [NoReq EXCEPT !.op = "history", !.userId = u] :
        u \in Users, t \in HistoryTypes, l \in 1..MaxLimit, o \in 0..MaxOffset}
TradeRequests == BuyRequests \cup SellRequests
\* the two requests of the investment flow: the buy, and the sale of part of
\* the position the buy opens (the first row of the investments table)
FlowRequests ==
    {[NoReq EXCEPT !.op = "buy", !.userId = TheUser, !.symbol = FlowSymbol,
                   !.quantity = FlowBuyQuantity],
     [NoReq EXCEPT !.op = "sell", !.userId = TheUser, !.id = 1,
                   !.quantity = FlowSellQuantity]}
ReadRequests ==
    CashBalanceRequests \cup AllInvestmentsRequests \cup InvestmentByIdRequests
        \cup HistoryRequests
Requests == TradeRequests \cup CreateRequests \cup AddCashRequests \cup DeleteRequests

\* ------------------------------------------------------------ header
\* the balances another component may pass to updateCashBalance or the
\* server may report, in cents
HeaderBalances == {100, 200}
\* the header shows no balance yet
NoText == 0 - 1
\* new HeaderLoader(): headerLoaded = false, initAttempts = 0, and init() about
\* to run; no timer is pending and the page has no header
NewHeaderLoader ==
    [headerLoaded |-> FALSE, initAttempts |-> 0, at |-> "init",
     elements |-> FALSE, tryInitialize |-> FALSE, fetches |-> 0,
     retries |-> <<>>, fired |-> 0, text |-> NoText, calls |-> <<>>]

\* ------------------------------------------------------------ initial state
\* the row and the record the first buy of q shares at oracle price p leaves
FirstRow(p, q) ==
    [id |-> 1, quantity |-> q, purchasePrice |-> Round2Price(p),
     currentPrice |-> Round2Price(p), totalInvested |-> TotalCostOf(p, q)]
FirstRecord(p, q) ==
    [userId |-> TheUser, symbol |-> TheSymbol, transactionType |-> "BUY", quantity |-> q,
     price |-> Round2Price(p), totalAmount |-> TotalCostOf(p, q), transactionDate |-> 0]

\* Every account holds InitCash; the behaviour starts either there or after
\* TheUser has bought InitQty shares of TheSymbol at PriceLow.
Init ==
    /\ \E held \in BOOLEAN :
        /\ cash = [u \in Users |->
                     IF held /\ u = TheUser THEN InitCash - TotalCostOf(PriceLow, InitQty)
                     ELSE InitCash]
        /\ inv = [k \in Keys |->
                     IF held /\ k = <<TheUser, TheSymbol>> THEN FirstRow(PriceLow, InitQty)
                     ELSE NoRow]
        /\ nextId = IF held THEN 2 ELSE 1
        /\ log = IF held THEN <<FirstRecord(PriceLow, InitQty)>> ELSE <<>>
    /\ lock = [r \in Rows |-> 0]
    /\ pc = [p \in Procs |-> "idle"]
    /\ req = [p \in Procs |-> NoReq]
    /\ loc = [p \in Procs |-> NoLoc]
    /\ tx = [p \in Procs |-> NoTx]
    /\ res = NoRes
    /\ ops = 0
    /\ fails = 0
    /\ headerLoader = NewHeaderLoader

\* the investment flow starts from accounts of FlowCash and no position
InitFlow ==
    /\ cash = [u \in Users |-> FlowCash]
    /\ inv = [k \in Keys |-> NoRow]
    /\ nextId = 1
    /\ log = <<>>
    /\ lock = [r \in Rows |-> 0]
    /\ pc = [p \in Procs |-> "idle"]
    /\ req = [p \in Procs |-> NoReq]
    /\ loc = [p \in Procs |-> NoLoc]
    /\ tx = [p \in Procs |-> NoTx]
    /\ res = NoRes
    /\ ops = 0
    /\ fails = 0
    /\ headerLoader = NewHeaderLoader

\* ------------------------------------------------------------ transactions
\* where a handler first suspends
EntryOf(op) ==
    CASE op = "buy" -> "b_validate"
      [] op = "sell" -> "s_validate"
      [] op = "create" -> "c_validate"
      [] op = "addCash" -> "a_validate"
      [] op = "delete" -> "d_find"
      [] op = "cashBalance" -> "gc_user"
      [] op = "all" -> "ga_find"
      [] op = "byId" -> "gi_find"
      [] op = "history" -> "gh_find"

\* const t = await sequelize.transaction(), the first line of a trading handler
\* (only buyInvestment, sellInvestment and createInvestment open one);
\* the handlers are interchangeable, so a request is taken by the first idle one
Begin(p, r, max) ==
    /\ pc[p] = "idle"
    /\ \A q \in Procs : q < p => pc[q] # "idle"
    /\ ops < max
    /\ ops' = ops + 1
    /\ req' = [req EXCEPT ![p] = [r EXCEPT !.startLog = Len(log)]]
    /\ loc' = [loc EXCEPT ![p] = NoLoc]
    /\ res' = NoRes
    /\ tx' = [tx EXCEPT ![p] = IF r.op \in {"buy", "sell", "create"}
                                THEN [NoTx EXCEPT !.st = "open"] ELSE NoTx]
    /\ pc' = [pc EXCEPT ![p] = EntryOf(r.op)]
    /\ UNCHANGED <<cash, inv, nextId, log, lock, fails, headerLoader>>

\* res.status(...).json(...): the handler answers its request and ends
Respond(p, r) ==
    /\ res' = [proc |-> p, req |-> req[p]] @@ r
    /\ req' = [req EXCEPT ![p] = NoReq]
    /\ loc' = [loc EXCEPT ![p] = NoLoc]
    /\ pc' = [pc EXCEPT ![p] = "idle"]

\* await t.rollback(); return res.status(status).json(...)
RollbackAndRespond(p, r) ==
    /\ tx' = [tx EXCEPT ![p] = [NoTx EXCEPT !.st = "rollback"]]
    /\ lock' = Released(p)
    /\ Respond(p, r)
    /\ UNCHANGED <<cash, inv, nextId, log, ops, headerLoader, fails>>

\* await t.commit(); res.json(...): the pending writes become the committed rows
CommitAndRespond(p, r) ==
    /\ cash' = IF tx[p].cash # <<>>
               THEN [cash EXCEPT ![req[p].userId] = tx[p].cash[Len(tx[p].cash)]]
               ELSE cash
    /\ inv' = ApplyInv(inv, tx[p].invw)
    /\ log' = log \o tx[p].logw
    /\ tx' = [tx EXCEPT ![p] = [NoTx EXCEPT !.st = "commit"]]
    /\ lock' = Released(p)
    /\ Respond(p, r)
    /\ UNCHANGED <<nextId, ops, headerLoader, fails>>

\* an await inside the try block rejects: control passes to the catch block
Throw(p) ==
    /\ pc' = [pc EXCEPT ![p] = "catch"]
    /\ UNCHANGED <<cash, inv, nextId, log, lock, req, loc, tx, res, ops, headerLoader>>

Fail(status, kind) == [status |-> status, kind |-> kind]

\* ------------------------------------------------------------ buyInvestment
\* parseInt(quantity), isNaN(purchaseQuantity) || purchaseQuantity <= 0
BuyValidate(p) ==
    /\ pc[p] = "b_validate"
    /\ IF req[p].quantity <= 0
       THEN /\ RollbackAndRespond(p, Fail(400, "InvalidInput"))
       ELSE /\ pc' = [pc EXCEPT ![p] = "b_price"]
            /\ UNCHANGED <<cash, inv, nextId, log, lock, req, loc, tx, res, ops, headerLoader, fails>>

\* await financeAPI.getStockPrice(symbol), the two price checks, totalCost
\* !stockData, isNaN(stockPrice) || stockPrice <= 0
Unusable(a) == a.kind = "null" \/ a.price <= 0

\* a buy that, like a sell, falls back to the position's cached price when the
\* oracle has no usable answer
BuyGetPriceCached(p) ==
    /\ pc[p] = "b_price"
    /\ \E a \in OracleAnswersFor(req[p].symbol) :
        LET row == inv[<<req[p].userId, Collated(req[p].symbol)>>]
            stockPrice == IF Unusable(a) THEN 10 * row.currentPrice ELSE a.price
        IN  IF a.kind = "throw"
            THEN Throw(p) /\ UNCHANGED fails
            ELSE IF Unusable(a) /\ row.id = 0
            THEN RollbackAndRespond(p, Fail(400, "PricingUnavailable"))
            ELSE /\ loc' = [loc EXCEPT ![p] =
                              [NoLoc EXCEPT !.stockPrice = stockPrice,
                                            !.price = Round2Price(stockPrice),
                                            !.total = TotalCostOf(stockPrice, req[p].quantity)]]
                 /\ pc' = [pc EXCEPT ![p] = "b_user"]
                 /\ UNCHANGED <<cash, inv, nextId, log, lock, req, tx, res, ops, headerLoader, fails>>

BuyGetPrice(p) ==
    /\ pc[p] = "b_price"
    /\ \E a \in OracleAnswersFor(req[p].symbol) :
        IF a.kind = "throw"
        THEN Throw(p) /\ UNCHANGED fails
        ELSE IF Unusable(a)
        THEN /\ RollbackAndRespond(p, Fail(400, "PricingUnavailable"))
         ELSE /\ loc' = [loc EXCEPT ![p] = [NoLoc EXCEPT !.stockPrice = a.price,
                                                        !.price = Round2Price(a.price),
                                                        !.total = TotalCostOf(a.price, req[p].quantity)]]
             /\ pc' = [pc EXCEPT ![p] = "b_user"]
             /\ UNCHANGED <<cash, inv, nextId, log, lock, req, tx, res, ops, headerLoader, fails>>

\* the funds check left out
InsufficientFundsUnchecked(userCashBalance, totalCost) == FALSE
\* the funds check with its comparison turned around
InsufficientFundsInverted(userCashBalance, totalCost) == userCashBalance > totalCost

\* userCashBalance < totalCost
InsufficientFunds(userCashBalance, totalCost) == userCashBalance < totalCost

\* the user row read without `lock: true`
BuyFindUserUnlocked(p) ==
    /\ pc[p] = "b_user"
    /\ LET userCashBalance == cash[req[p].userId] IN
       IF InsufficientFunds(userCashBalance, loc[p].total)
       THEN RollbackAndRespond(p, [status |-> 400, kind |-> "InsufficientFunds",
                                   currentBalance |-> userCashBalance])
       ELSE /\ loc' = [loc EXCEPT ![p].userCash = userCashBalance]
            /\ pc' = [pc EXCEPT ![p] = "b_inv"]
            /\ UNCHANGED <<cash, inv, nextId, log, lock, req, tx, res, ops, headerLoader, fails>>

\* await User.findByPk(userId, { transaction: t, lock: true }) and the funds check
BuyFindUser(p) ==
    /\ pc[p] = "b_user"
    /\ CanLock(p, UserRow(req[p].userId))
    /\ LET userCashBalance == cash[req[p].userId] IN
       IF InsufficientFunds(userCashBalance, loc[p].total)
       THEN /\ RollbackAndRespond(p, [status |-> 400, kind |-> "InsufficientFunds",
                                      currentBalance |-> userCashBalance])
       ELSE /\ lock' = [lock EXCEPT ![UserRow(req[p].userId)] = p]
            /\ loc' = [loc EXCEPT ![p].userCash = userCashBalance]
            /\ pc' = [pc EXCEPT ![p] = "b_inv"]
            /\ UNCHANGED <<cash, inv, nextId, log, req, tx, res, ops, headerLoader, fails>>

\* await Investment.findOne({ where: { userId, symbol }, transaction: t, lock: true })
BuyFindInvestment(p) ==
    /\ pc[p] = "b_inv"
    /\ LET k == <<req[p].userId, Collated(req[p].symbol)>> IN
        /\ CanLock(p, InvRow(k))
        /\ lock' = [lock EXCEPT ![InvRow(k)] = p]
        /\ loc' = [loc EXCEPT ![p].key = k, ![p].row = inv[k]]
    /\ pc' = [pc EXCEPT ![p] = "b_write"]
    /\ UNCHANGED <<cash, inv, nextId, log, req, tx, res, ops, headerLoader, fails>>

\* a purchase that always inserts a row of its own, held symbol or not
BoughtRowInserted(old, id, q, price, totalCost) ==
    [id |-> id, quantity |-> q, purchasePrice |-> price, currentPrice |-> price,
     totalInvested |-> totalCost]

\* an existing row overwritten with the purchase instead of accumulating it
BoughtRowOverwriting(old, id, q, price, totalCost) ==
    [id |-> IF old.id # 0 THEN old.id ELSE id, quantity |-> q, purchasePrice |-> price,
     currentPrice |-> price, totalInvested |-> totalCost]

\* the row buyInvestment writes: the existing row with the purchase added
\* (investment.update), or a new row (Investment.create)
BoughtRow(old, id, q, price, totalCost) ==
    IF old.id # 0
    THEN [old EXCEPT !.quantity = old.quantity + q,
                     !.totalInvested = old.totalInvested + totalCost,
                     !.purchasePrice = RoundDiv(old.totalInvested + totalCost, old.quantity + q),
                     !.currentPrice = price]
    ELSE [id |-> id, quantity |-> q, purchasePrice |-> price, currentPrice |-> price,
          totalInvested |-> totalCost]

\* await investment.update({...}, { transaction: t }) or
\* await Investment.create({...}, { transaction: t })
BuyWriteInvestment(p) ==
    /\ pc[p] = "b_write"
    /\ LET new == BoughtRow(loc[p].row, nextId, req[p].quantity, loc[p].price, loc[p].total) IN
        /\ tx' = [tx EXCEPT ![p].invw = Append(@, <<loc[p].key, new>>)]
        /\ loc' = [loc EXCEPT ![p].row = new]
    /\ nextId' = IF loc[p].row.id = 0 THEN nextId + 1 ELSE nextId
    /\ pc' = [pc EXCEPT ![p] = "b_cash"]
    /\ UNCHANGED <<cash, inv, log, lock, req, res, ops, headerLoader, fails>>

\* the balance written back without the debit
DebitedBalanceKept(userCashBalance, totalCost) == userCashBalance

\* parseFloat((userCashBalance - totalCost).toFixed(2))
DebitedBalance(userCashBalance, totalCost) == userCashBalance - totalCost

\* the debit issued without { transaction: t }: it is stored at once, before
\* the position and the record of the buy
BuyUpdateUserOutsideTransaction(p) ==
    /\ pc[p] = "b_cash"
    /\ cash' = [cash EXCEPT ![req[p].userId] = DebitedBalance(loc[p].userCash, loc[p].total)]
    /\ tx' = [tx EXCEPT ![p].cash = Append(@, DebitedBalance(loc[p].userCash, loc[p].total))]
    /\ pc' = [pc EXCEPT ![p] = "b_record"]
    /\ UNCHANGED <<inv, nextId, log, lock, req, loc, res, ops, headerLoader, fails>>

\* await user.update({ cashBalance: newCashBalance }, { transaction: t })
BuyUpdateUser(p) ==
    /\ pc[p] = "b_cash"
    /\ tx' = [tx EXCEPT ![p].cash = Append(@, DebitedBalance(loc[p].userCash, loc[p].total))]
    /\ pc' = [pc EXCEPT ![p] = "b_record"]
    /\ UNCHANGED <<cash, inv, nextId, log, lock, req, loc, res, ops, headerLoader, fails>>

\* a record whose totalAmount is the price of one share
TradeRecordPerShare(u, sym, side, q, price, total) ==
    [userId |-> u, symbol |-> sym, transactionType |-> side, quantity |-> q,
     price |-> price, totalAmount |-> price]

\* the transactions row a trade appends
TradeRecord(u, sym, side, q, price, total) ==
    [userId |-> u, symbol |-> sym, transactionType |-> side, quantity |-> q,
     price |-> price, totalAmount |-> total]

\* transactionDate: new Date(): what the clock can read now, which is never
\* earlier than a date it has given
Now ==
    {d \in 0..MaxDate :
        /\ \A i \in 1..Len(log) : log[i].transactionDate <= d
        /\ \A q \in Procs : \A j \in 1..Len(tx[q].logw) : tx[q].logw[j].transactionDate <= d}

\* the record with its transactionDate
Stamped(r, d) ==
    [f \in DOMAIN r \cup {"transactionDate"} |-> IF f = "transactionDate" THEN d ELSE r[f]]

\* a BUY record created without { transaction: t }: stored at once
BuyRecordOutsideTransaction(p) ==
    /\ pc[p] = "b_record"
    /\ \E d \in Now :
        log' = Append(log, Stamped(TradeRecord(req[p].userId, req[p].symbol, "BUY",
                                               req[p].quantity, loc[p].price, loc[p].total),
                                   d))
    /\ pc' = [pc EXCEPT ![p] = "b_commit"]
    /\ UNCHANGED <<cash, inv, nextId, lock, req, loc, tx, res, ops, headerLoader, fails>>

\* await Transaction.create({... transactionType: 'BUY' ...}, { transaction: t })
BuyRecord(p) ==
    /\ pc[p] = "b_record"
    /\ \E d \in Now :
        tx' = [tx EXCEPT ![p].logw =
                 Append(@, Stamped(TradeRecord(req[p].userId, req[p].symbol, "BUY",
                                               req[p].quantity, loc[p].price, loc[p].total),
                                   d))]
    /\ pc' = [pc EXCEPT ![p] = "b_commit"]
    /\ UNCHANGED <<cash, inv, nextId, log, lock, req, loc, res, ops, headerLoader, fails>>

\* await t.commit(); res.json({ success: true, ... })
BuyCommit(p) ==
    /\ pc[p] = "b_commit"
    /\ CommitAndRespond(p, [status |-> 200, kind |-> "Bought",
                            investment |-> loc[p].row,
                            remainingCash |-> tx[p].cash[Len(tx[p].cash)],
                            quantity |-> req[p].quantity,
                            pricePerShare |-> loc[p].stockPrice,
                            totalCost |-> loc[p].total])

\* ------------------------------------------------------------ sellInvestment
\* parseInt(quantity), !sellQuantity || sellQuantity <= 0 || isNaN(sellQuantity)
SellValidate(p) ==
    /\ pc[p] = "s_validate"
    /\ IF req[p].quantity <= 0
       THEN /\ RollbackAndRespond(p, Fail(400, "InvalidInput"))
       ELSE /\ pc' = [pc EXCEPT ![p] = "s_inv"]
            /\ UNCHANGED <<cash, inv, nextId, log, lock, req, loc, tx, res, ops, headerLoader, fails>>

\* the row looked up by id alone, without userId
TargetKeyAnyOwner(p) ==
    IF \E k \in Keys : inv[k].id = req[p].id
    THEN CHOOSE k \in Keys : inv[k].id = req[p].id
    ELSE <<>>

\* the key of the row that `where: { id, userId }` selects, or <<>>; a row
\* another transaction has inserted and not yet committed is found too (the
\* locking read then waits for that transaction)
TargetKey(p) ==
    LET own(k) == k[1] = req[p].userId
        hit(k) == \/ inv[k].id = req[p].id
                  \/ \E q \in Procs \ {p} : \E i \in 1..Len(tx[q].invw) :
                        tx[q].invw[i][1] = k /\ tx[q].invw[i][2].id = req[p].id
    IN  IF \E k \in Keys : own(k) /\ hit(k)
        THEN CHOOSE k \in Keys : own(k) /\ hit(k)
        ELSE <<>>

\* the quantity check left out
InsufficientSharesUnchecked(sellQuantity, investmentQuantity) == FALSE

\* sellQuantity > investmentQuantity
InsufficientShares(sellQuantity, investmentQuantity) == sellQuantity > investmentQuantity

\* await Investment.findOne({ where: { id, userId }, transaction: t, lock: true }),
\* the not-found check and the quantity check
SellFindInvestment(p) ==
    /\ pc[p] = "s_inv"
    /\ LET k == TargetKey(p) IN
       IF k = <<>>
       THEN /\ RollbackAndRespond(p, Fail(404, "PositionNotFound"))
       ELSE /\ CanLock(p, InvRow(k))
            /\ IF inv[k].id # req[p].id
               THEN /\ RollbackAndRespond(p, Fail(404, "PositionNotFound"))
                       ELSE IF InsufficientShares(req[p].quantity, inv[k].quantity)
               THEN /\ RollbackAndRespond(p, [status |-> 400, kind |-> "InsufficientShares",
                                              requested |-> req[p].quantity,
                                              owned |-> inv[k].quantity])
                       ELSE /\ lock' = [lock EXCEPT ![InvRow(k)] = p]
                    /\ loc' = [loc EXCEPT ![p].key = k, ![p].row = inv[k]]
                    /\ pc' = [pc EXCEPT ![p] = "s_price"]
                    /\ UNCHANGED <<cash, inv, nextId, log, req, tx, res, ops, headerLoader, fails>>

\* the proportional cost cut to whole cents instead of rounded
ProportionalInvestedTruncated(totalInvested, investmentQuantity, sellQuantity) ==
    (totalInvested * sellQuantity) \div investmentQuantity

\* parseFloat(((totalInvested / investmentQuantity) * sellQuantity).toFixed(2))
ProportionalInvested(totalInvested, investmentQuantity, sellQuantity) ==
    RoundDiv(totalInvested * sellQuantity, investmentQuantity)

\* currentStockData ? parseFloat(currentStockData.price.toFixed(2))
\*                  : parseFloat(investment.currentPrice)
SellPrice(a, row) == IF a.kind = "data" THEN Round2Price(a.price) ELSE row.currentPrice

\* await financeAPI.getStockPrice(investment.symbol) and the sale values
SellGetPrice(p) ==
    /\ pc[p] = "s_price"
    /\ \E a \in OracleAnswersFor(loc[p].key[2]) :
        IF a.kind = "throw"
        THEN Throw(p) /\ UNCHANGED fails
        ELSE LET currentPrice == SellPrice(a, loc[p].row)
                 saleValue == currentPrice * req[p].quantity
                 proportionalInvested ==
                     ProportionalInvested(loc[p].row.totalInvested, loc[p].row.quantity,
                                          req[p].quantity)
             IN /\ loc' = [loc EXCEPT ![p].price = currentPrice,
                                      ![p].total = saleValue,
                                      ![p].basis = proportionalInvested,
                                      ![p].profitLoss = saleValue - proportionalInvested]
                /\ pc' = [pc EXCEPT ![p] = "s_user"]
                /\ UNCHANGED <<cash, inv, nextId, log, lock, req, tx, res, ops, headerLoader, fails>>

\* await User.findByPk(userId, { transaction: t, lock: true })
SellFindUser(p) ==
    /\ pc[p] = "s_user"
    /\ CanLock(p, UserRow(req[p].userId))
    /\ lock' = [lock EXCEPT ![UserRow(req[p].userId)] = p]
    /\ loc' = [loc EXCEPT ![p].userCash = cash[req[p].userId]]
    /\ pc' = [pc EXCEPT ![p] = "s_cash"]
    /\ UNCHANGED <<cash, inv, nextId, log, req, tx, res, ops, headerLoader, fails>>

\* a credit that takes parseInt of the sale value: whole currency units only
CreditedBalanceWhole(currentCashBalance, saleValue) ==
    currentCashBalance + 100 * (saleValue \div 100)

\* parseFloat((currentCashBalance + saleValue).toFixed(2))
CreditedBalance(currentCashBalance, saleValue) == currentCashBalance + saleValue

\* the cash update issued without { transaction: t }: it commits on its own
SellUpdateUserOutsideTransaction(p) ==
    /\ pc[p] = "s_cash"
    /\ cash' = [cash EXCEPT ![req[p].userId] = CreditedBalance(loc[p].userCash, loc[p].total)]
    /\ pc' = [pc EXCEPT ![p] = "s_record"]
    /\ UNCHANGED <<inv, nextId, log, lock, req, loc, tx, res, ops, headerLoader, fails>>

\* await user.update({ cashBalance: newCashBalance }, { transaction: t })
SellUpdateUser(p) ==
    /\ pc[p] = "s_cash"
    /\ tx' = [tx EXCEPT ![p].cash = Append(@, CreditedBalance(loc[p].userCash, loc[p].total))]
    /\ pc' = [pc EXCEPT ![p] = "s_record"]
    /\ UNCHANGED <<cash, inv, nextId, log, lock, req, loc, res, ops, headerLoader, fails>>

\* await Transaction.create({... transactionType: 'SELL' ...}, { transaction: t })
SellRecord(p) ==
    /\ pc[p] = "s_record"
    /\ \E d \in Now :
        tx' = [tx EXCEPT ![p].logw =
                 Append(@, Stamped(TradeRecord(req[p].userId, loc[p].key[2], "SELL",
                                               req[p].quantity, loc[p].price, loc[p].total),
                                   d))]
    /\ pc' = [pc EXCEPT ![p] = "s_write"]
    /\ UNCHANGED <<cash, inv, nextId, log, lock, req, loc, res, ops, headerLoader, fails>>

\* a sale that always updates the row, leaving an empty row after a full sale
SoldRowKept(old, sellQuantity, proportionalInvested, currentPrice) ==
    [old EXCEPT !.quantity = old.quantity - sellQuantity,
                !.totalInvested = old.totalInvested - proportionalInvested,
                !.currentPrice = currentPrice]

\* the row a sale leaves: none when every share is sold (investment.destroy),
\* else the row with the sold shares and their proportional cost removed
SoldRow(old, sellQuantity, proportionalInvested, currentPrice) ==
    IF sellQuantity = old.quantity
    THEN NoRow
    ELSE [old EXCEPT !.quantity = old.quantity - sellQuantity,
                     !.totalInvested = old.totalInvested - proportionalInvested,
                     !.purchasePrice = RoundDiv(old.totalInvested - proportionalInvested,
                                                old.quantity - sellQuantity),
                     !.currentPrice = currentPrice]

\* await investment.destroy({ transaction: t }) or
\* await investment.update({...}, { transaction: t })
SellWriteInvestment(p) ==
    /\ pc[p] = "s_write"
    /\ tx' = [tx EXCEPT ![p].invw =
                 Append(@, <<loc[p].key,
                             SoldRow(loc[p].row, req[p].quantity, loc[p].basis, loc[p].price)>>)]
    /\ pc' = [pc EXCEPT ![p] = "s_commit"]
    /\ UNCHANGED <<cash, inv, nextId, log, lock, req, loc, res, ops, headerLoader, fails>>

\* remainingShares: sellQuantity === investmentQuantity ? 0 : investmentQuantity - sellQuantity
RemainingShares(sellQuantity, investmentQuantity) ==
    IF sellQuantity = investmentQuantity THEN 0 ELSE investmentQuantity - sellQuantity

\* await t.commit(); res.json({ success: true, ... })
SellCommit(p) ==
    /\ pc[p] = "s_commit"
    /\ CommitAndRespond(p, [status |-> 200, kind |-> "Sold",
                            quantitySold |-> req[p].quantity,
                            pricePerShare |-> loc[p].price,
                            totalReceived |-> loc[p].total,
                            profitLoss |-> loc[p].profitLoss,
                            newCashBalance |-> tx[p].cash[Len(tx[p].cash)],
                            remainingShares |->
                                RemainingShares(req[p].quantity, loc[p].row.quantity)])

\* ------------------------------------------------------------ failures
\* the awaits on the store inside the try block of a trading handler
StorageAwaits ==
    {"b_user", "b_inv", "b_write", "b_cash", "b_record", "b_commit",
     "s_inv", "s_user", "s_cash", "s_record", "s_write", "s_commit",
     "c_user", "c_inv", "c_cash", "c_record", "c_commit"}

\* An await on the store rejects (I/O error, constraint violation, lock wait
\* timeout, deadlock victim).  A rejected commit leaves the transaction
\* finished and its writes undone by the store.
StorageFail(p) ==
    /\ pc[p] \in StorageAwaits
    /\ fails < MaxFailures
    /\ fails' = fails + 1
    /\ IF pc[p] \in {"b_commit", "s_commit", "c_commit"}
       THEN /\ tx' = [tx EXCEPT ![p] = [NoTx EXCEPT !.st = "commit"]]
            /\ lock' = Released(p)
       ELSE UNCHANGED <<tx, lock>>
    /\ pc' = [pc EXCEPT ![p] = "catch"]
    /\ UNCHANGED <<cash, inv, nextId, log, req, loc, res, ops, headerLoader>>

\* catch (error) { await t.rollback(); res.status(500).json(...) }: rollback()
\* of a transaction that is already finished throws, and no response is sent
Catch(p) ==
    /\ pc[p] = "catch"
    /\ IF tx[p].st = "open"
       THEN RollbackAndRespond(p, Fail(500, "ServerError"))
       ELSE /\ Respond(p, Fail(0, "Unhandled"))
            /\ UNCHANGED <<cash, inv, nextId, log, lock, tx, ops, headerLoader, fails>>

\* ------------------------------------------------------------ specification
buyInvestment(p) ==
    \/ BuyValidate(p) \/ BuyGetPrice(p) \/ BuyFindUser(p) \/ BuyFindInvestment(p)
    \/ BuyWriteInvestment(p) \/ BuyUpdateUser(p) \/ BuyRecord(p) \/ BuyCommit(p)

sellInvestment(p) ==
    \/ SellValidate(p) \/ SellGetPrice(p) \/ SellFindInvestment(p) \/ SellFindUser(p)
    \/ SellUpdateUser(p) \/ SellRecord(p) \/ SellWriteInvestment(p) \/ SellCommit(p)

NextTrade ==
    \E p \in Procs :
        \/ \E r \in TradeRequests : r.userId = TheUser /\ Begin(p, r, MaxOps)
        \/ buyInvestment(p)
        \/ sellInvestment(p)
        \/ StorageFail(p)
        \/ Catch(p)

\* the buys and sells of one user
SpecTrade == Init /\ [][NextTrade]_vars

\* ------------------------------------------------------------ createInvestment
\* req.body.quantity in half shares
Halves(r) == 2 * r.quantity + r.half

\* the quantity setter of Investment: parseInt(value) || 0
ParseIntHalves(h) == h \div 2

\* a fractional value written to the integer quantity column of transactions,
\* which the store rounds to the nearest whole number
StoredHalves(h) == (h + 1) \div 2

\* !symbol || !quantity || quantity <= 0
CreateValidate(p) ==
    /\ pc[p] = "c_validate"
    /\ IF req[p].symbol = "" \/ Halves(req[p]) <= 0
       THEN RollbackAndRespond(p, Fail(400, "InvalidInput"))
       ELSE /\ pc' = [pc EXCEPT ![p] = "c_price"]
            /\ UNCHANGED <<cash, inv, nextId, log, lock, req, loc, tx, res, ops, headerLoader, fails>>

\* await financeAPI.getStockPrice(symbol.toUpperCase()), !stockData, and
\* totalCost = currentPrice * quantity, kept unrounded (twentieths of a cent)
CreateGetPrice(p) ==
    /\ pc[p] = "c_price"
    /\ \E a \in OracleAnswersFor(ToUpperCase(req[p].symbol)) :
        IF a.kind = "throw"
        THEN Throw(p) /\ UNCHANGED fails
        ELSE IF a.kind = "null"
        THEN RollbackAndRespond(p, Fail(400, "PricingUnavailable"))
        ELSE /\ loc' = [loc EXCEPT ![p] = [NoLoc EXCEPT !.stockPrice = a.price,
                                                        !.price = Round2Price(a.price),
                                                        !.total = a.price * Halves(req[p])]]
             /\ pc' = [pc EXCEPT ![p] = "c_user"]
             /\ UNCHANGED <<cash, inv, nextId, log, lock, req, tx, res, ops, headerLoader, fails>>

\* await User.findByPk(userId, { transaction }): a plain read, no lock; it fixes
\* the snapshot the transaction's later plain reads see.  Then
\* parseFloat(user.cashBalance) < totalCost, in twentieths of a cent.
CreateFindUser(p) ==
    /\ pc[p] = "c_user"
    /\ LET userCashBalance == cash[req[p].userId] IN
       IF 20 * userCashBalance < loc[p].total
       THEN RollbackAndRespond(p, [status |-> 400, kind |-> "InsufficientFunds",
                                   currentBalance |-> userCashBalance,
                                   required |-> loc[p].total])
       ELSE /\ loc' = [loc EXCEPT ![p].userCash = userCashBalance,
                                  ![p].key = <<req[p].userId, ToUpperCase(req[p].symbol)>>,
                                  ![p].row = inv[<<req[p].userId, ToUpperCase(req[p].symbol)>>]]
            /\ pc' = [pc EXCEPT ![p] = "c_inv"]
            /\ UNCHANGED <<cash, inv, nextId, log, lock, req, tx, res, ops, headerLoader, fails>>

\* an investments table without the unique index
UniqueViolationNever(row, current) == FALSE

\* indexes: [{ unique: true, fields: ['userId', 'symbol'] }]: the insert of a row
\* (the instance read was none) for a key that has a stored row by then
UniqueViolation(row, current) == row.id = 0 /\ current.id # 0

\* await Investment.findOne({ where: { userId, symbol }, transaction }): a plain
\* read of the snapshot, then the write of the position
\*   investment.update({...}, { transaction }): waits for the row's lock
\*   Investment.create({...}, { transaction }): waits for the key's lock, and
\*   violates the unique index (userId, symbol) when a row is committed by then
CreateWriteInvestment(p) ==
    /\ pc[p] = "c_inv"
    /\ CanLock(p, InvRow(loc[p].key))
    /\ IF UniqueViolation(loc[p].row, inv[loc[p].key])
       THEN Throw(p) /\ UNCHANGED fails
       ELSE IF loc[p].row.id # 0 /\ inv[loc[p].key].id # loc[p].row.id
       THEN \* UPDATE ... WHERE id = ? matches no row any more
            /\ pc' = [pc EXCEPT ![p] = "c_cash"]
            /\ UNCHANGED <<cash, inv, nextId, log, lock, req, loc, tx, res, ops, headerLoader, fails>>
       ELSE /\ lock' = [lock EXCEPT ![InvRow(loc[p].key)] = p]
            /\ LET old == loc[p].row
                   new == IF old.id # 0
                          THEN [old EXCEPT
                                  !.quantity =
                                      ParseIntHalves(2 * old.quantity + Halves(req[p])),
                                  !.totalInvested =
                                      RoundDiv(20 * old.totalInvested + loc[p].total, 20),
                                  !.purchasePrice =
                                      RoundDiv(20 * old.totalInvested + loc[p].total,
                                               10 * (2 * old.quantity + Halves(req[p]))),
                                  !.currentPrice = loc[p].price]
                          ELSE [id |-> nextId, quantity |-> ParseIntHalves(Halves(req[p])),
                                purchasePrice |-> loc[p].price,
                                currentPrice |-> loc[p].price,
                                totalInvested |-> RoundDiv(loc[p].total, 20)]
               IN /\ tx' = [tx EXCEPT ![p].invw = Append(@, <<loc[p].key, new>>)]
                  /\ loc' = [loc EXCEPT ![p].row = new]
            /\ nextId' = IF loc[p].row.id = 0 THEN nextId + 1 ELSE nextId
            /\ pc' = [pc EXCEPT ![p] = "c_cash"]
            /\ UNCHANGED <<cash, inv, log, req, res, ops, headerLoader, fails>>

\* newCashBalance = parseFloat(user.cashBalance) - totalCost, stored in a
\* two-decimal column; await user.update({ cashBalance }, { transaction }) waits
\* for the row's lock
CreateUpdateUser(p) ==
    /\ pc[p] = "c_cash"
    /\ CanLock(p, UserRow(req[p].userId))
    /\ lock' = [lock EXCEPT ![UserRow(req[p].userId)] = p]
    /\ tx' = [tx EXCEPT ![p].cash = Append(@, RoundDiv(20 * loc[p].userCash - loc[p].total, 20))]
    /\ pc' = [pc EXCEPT ![p] = "c_record"]
    /\ UNCHANGED <<cash, inv, nextId, log, req, loc, res, ops, headerLoader, fails>>

\* await Transaction.create({... transactionType: 'BUY' ...}, { transaction })
CreateRecord(p) ==
    /\ pc[p] = "c_record"
    /\ \E d \in Now :
        tx' = [tx EXCEPT ![p].logw =
                 Append(@, Stamped(TradeRecord(req[p].userId, ToUpperCase(req[p].symbol), "BUY",
                                               StoredHalves(Halves(req[p])), loc[p].price,
                                               RoundDiv(loc[p].total, 20)),
                                   d))]
    /\ pc' = [pc EXCEPT ![p] = "c_commit"]
    /\ UNCHANGED <<cash, inv, nextId, log, lock, req, loc, res, ops, headerLoader, fails>>

\* await transaction.commit(); res.status(201).json(...)
CreateCommit(p) ==
    /\ pc[p] = "c_commit"
    /\ CommitAndRespond(p, [status |-> 201, kind |-> "Bought",
                            investment |-> loc[p].row,
                            remainingCash |-> tx[p].cash[Len(tx[p].cash)],
                            quantity |-> req[p].quantity,
                            pricePerShare |-> loc[p].stockPrice,
                            totalCost |-> loc[p].total])

\* ------------------------------------------------------------ addCash
\* !amount || amount <= 0
AddCashValidate(p) ==
    /\ pc[p] = "a_validate"
    /\ IF req[p].amount <= 0
       THEN /\ Respond(p, Fail(400, "InvalidInput"))
            /\ UNCHANGED <<cash, inv, nextId, log, lock, tx, ops, headerLoader, fails>>
       ELSE /\ pc' = [pc EXCEPT ![p] = "a_user"]
            /\ UNCHANGED <<cash, inv, nextId, log, lock, req, loc, tx, res, ops, headerLoader, fails>>

\* await User.findByPk(userId): a plain read outside any transaction
AddCashFindUser(p) ==
    /\ pc[p] = "a_user"
    /\ loc' = [loc EXCEPT ![p].userCash = cash[req[p].userId]]
    /\ pc' = [pc EXCEPT ![p] = "a_update"]
    /\ UNCHANGED <<cash, inv, nextId, log, lock, req, tx, res, ops, headerLoader, fails>>

\* newBalance = parseFloat(user.cashBalance) + parseFloat(amount);
\* await user.update({ cashBalance: newBalance }): its own transaction, which
\* waits for the row's lock and commits at once
AddCashUpdate(p) ==
    /\ pc[p] = "a_update"
    /\ lock[UserRow(req[p].userId)] = 0
    /\ cash' = [cash EXCEPT ![req[p].userId] = loc[p].userCash + req[p].amount]
    /\ Respond(p, [status |-> 200, kind |-> "Deposited",
                   newBalance |-> loc[p].userCash + req[p].amount])
    /\ UNCHANGED <<inv, nextId, log, lock, tx, ops, headerLoader, fails>>

\* ------------------------------------------------------------ deleteInvestment
\* the key of the row Investment.findOne({ where: { id, userId } }) finds, or <<>>
OwnKey(u, id) ==
    IF \E k \in Keys : k[1] = u /\ inv[k].id = id
    THEN CHOOSE k \in Keys : k[1] = u /\ inv[k].id = id
    ELSE <<>>

\* await Investment.findOne({ where: { id, userId } }): a plain read
DeleteFind(p) ==
    /\ pc[p] = "d_find"
    /\ LET k == OwnKey(req[p].userId, req[p].id) IN
       IF k = <<>>
       THEN /\ Respond(p, Fail(404, "PositionNotFound"))
            /\ UNCHANGED <<cash, inv, nextId, log, lock, tx, ops, headerLoader, fails>>
       ELSE /\ loc' = [loc EXCEPT ![p].key = k, ![p].row = inv[k]]
            /\ pc' = [pc EXCEPT ![p] = "d_destroy"]
            /\ UNCHANGED <<cash, inv, nextId, log, lock, req, tx, res, ops, headerLoader, fails>>

\* a destroy that also deletes the transactions rows of the position
DeleteDestroyCascade(p) ==
    /\ pc[p] = "d_destroy"
    /\ lock[InvRow(loc[p].key)] = 0
    /\ inv' = IF inv[loc[p].key].id = loc[p].row.id
              THEN [inv EXCEPT ![loc[p].key] = NoRow]
              ELSE inv
    /\ log' = SelectSeq(log, LAMBDA r : <<r.userId, r.symbol>> # loc[p].key)
    /\ Respond(p, [status |-> 200, kind |-> "Deleted"])
    /\ UNCHANGED <<cash, nextId, lock, tx, ops, headerLoader, fails>>

\* await investment.destroy(): DELETE ... WHERE id = ?, its own transaction,
\* which waits for the row's lock and commits at once
DeleteDestroy(p) ==
    /\ pc[p] = "d_destroy"
    /\ lock[InvRow(loc[p].key)] = 0
    /\ inv' = IF inv[loc[p].key].id = loc[p].row.id
              THEN [inv EXCEPT ![loc[p].key] = NoRow]
              ELSE inv
    /\ Respond(p, [status |-> 200, kind |-> "Deleted"])
    /\ UNCHANGED <<cash, nextId, log, lock, tx, ops, headerLoader, fails>>

deleteInvestment(p) == DeleteFind(p) \/ DeleteDestroy(p)

\* ------------------------------------------------------------ reads
\* await User.findByPk(userId); res.json({ cashBalance, userId })
getCashBalance(p) ==
    /\ pc[p] = "gc_user"
    /\ Respond(p, [status |-> 200, kind |-> "CashBalance",
                   cashBalance |-> cash[req[p].userId]])
    /\ UNCHANGED <<cash, inv, nextId, log, lock, tx, ops, headerLoader, fails>>


\* the data of one investment in a response: the instance as read, with the
\* price the handler reports (in tenths of a cent)
Reported(k, row, currentPrice) ==
    [symbol |-> k[2], id |-> row.id, quantity |-> row.quantity,
     totalInvested |-> row.totalInvested, purchasePrice |-> row.purchasePrice,
     currentPrice |-> currentPrice]

\* await Investment.findAll({ where: { userId } }): a plain read of the one
\* symbol's row; with no row Promise.all resolves at once
AllFind(p) ==
    /\ pc[p] = "ga_find"
    /\ LET k == <<req[p].userId, TheSymbol>> IN
       IF inv[k].id = 0
       THEN /\ Respond(p, [status |-> 200, kind |-> "Investments", data |-> {}])
            /\ UNCHANGED <<cash, inv, nextId, log, lock, tx, ops, headerLoader, fails>>
       ELSE /\ loc' = [loc EXCEPT ![p].key = k, ![p].row = inv[k]]
            /\ pc' = [pc EXCEPT ![p] = "ga_price"]
            /\ UNCHANGED <<cash, inv, nextId, log, lock, req, tx, res, ops, headerLoader, fails>>

\* stockData ? stockData.price : investment.purchasePrice, in tenths of a cent
ReadPrice(a, row) == IF a.kind = "data" THEN a.price ELSE 10 * row.purchasePrice

\* await financeAPI.getStockPrice(investment.symbol) inside the inner try: an
\* exception is answered with the purchase price and no update
AllGetPrice(p) ==
    /\ pc[p] = "ga_price"
    /\ \E a \in OracleAnswers :
        IF a.kind = "throw"
        THEN /\ Respond(p, [status |-> 200, kind |-> "Investments",
                            data |-> {Reported(loc[p].key, loc[p].row,
                                               10 * loc[p].row.purchasePrice)}])
             /\ UNCHANGED <<cash, inv, nextId, log, lock, tx, ops, headerLoader, fails>>
        ELSE /\ loc' = [loc EXCEPT ![p].stockPrice = ReadPrice(a, loc[p].row)]
             /\ pc' = [pc EXCEPT ![p] = "ga_update"]
             /\ UNCHANGED <<cash, inv, nextId, log, lock, req, tx, res, ops, headerLoader, fails>>

\* the whole instance written back as it was read, with the new price
PriceRefreshedWholeRow(k, row, currentPrice) ==
    [inv EXCEPT ![k] = [row EXCEPT !.currentPrice = Round2Price(currentPrice)]]

\* the rows after UPDATE investments SET currentPrice = ? WHERE id = ?, the
\* price stored in a two-decimal column
PriceRefreshed(k, row, currentPrice) ==
    IF inv[k].id = row.id
    THEN [inv EXCEPT ![k].currentPrice = Round2Price(currentPrice)]
    ELSE inv

\* await investment.update({ currentPrice }): its own transaction, which waits
\* for the row's lock and commits at once; then res.json(...)
AllUpdate(p) ==
    /\ pc[p] = "ga_update"
    /\ lock[InvRow(loc[p].key)] = 0
    /\ inv' = PriceRefreshed(loc[p].key, loc[p].row, loc[p].stockPrice)
    /\ Respond(p, [status |-> 200, kind |-> "Investments",
                   data |-> {Reported(loc[p].key, loc[p].row, loc[p].stockPrice)}])
    /\ UNCHANGED <<cash, nextId, log, lock, tx, ops, headerLoader, fails>>

getAllInvestments(p) == AllFind(p) \/ AllGetPrice(p) \/ AllUpdate(p)

\* await Investment.findOne({ where: { id, userId } }), !investment
ByIdFind(p) ==
    /\ pc[p] = "gi_find"
    /\ LET k == OwnKey(req[p].userId, req[p].id) IN
       IF k = <<>>
       THEN /\ Respond(p, Fail(404, "PositionNotFound"))
            /\ UNCHANGED <<cash, inv, nextId, log, lock, tx, ops, headerLoader, fails>>
       ELSE /\ loc' = [loc EXCEPT ![p].key = k, ![p].row = inv[k]]
            /\ pc' = [pc EXCEPT ![p] = "gi_price"]
            /\ UNCHANGED <<cash, inv, nextId, log, lock, req, tx, res, ops, headerLoader, fails>>

\* await financeAPI.getStockPrice(investment.symbol) inside the inner try: an
\* exception is answered with investment.toJSON()
ByIdGetPrice(p) ==
    /\ pc[p] = "gi_price"
    /\ \E a \in OracleAnswers :
        IF a.kind = "throw"
        THEN /\ Respond(p, [status |-> 200, kind |-> "Investment",
                            data |-> Reported(loc[p].key, loc[p].row,
                                              10 * loc[p].row.currentPrice)])
             /\ UNCHANGED <<cash, inv, nextId, log, lock, tx, ops, headerLoader, fails>>
        ELSE /\ loc' = [loc EXCEPT ![p].stockPrice = ReadPrice(a, loc[p].row)]
             /\ pc' = [pc EXCEPT ![p] = "gi_update"]
             /\ UNCHANGED <<cash, inv, nextId, log, lock, req, tx, res, ops, headerLoader, fails>>

\* await investment.update({ currentPrice }); res.json(...)
ByIdUpdate(p) ==
    /\ pc[p] = "gi_update"
    /\ lock[InvRow(loc[p].key)] = 0
    /\ inv' = PriceRefreshed(loc[p].key, loc[p].row, loc[p].stockPrice)
    /\ Respond(p, [status |-> 200, kind |-> "Investment",
                   data |-> Reported(loc[p].key, loc[p].row, loc[p].stockPrice)])
    /\ UNCHANGED <<cash, nextId, log, lock, tx, ops, headerLoader, fails>>

getInvestmentById(p) == ByIdFind(p) \/ ByIdGetPrice(p) \/ ByIdUpdate(p)

\* the indices of the records a history query matches: whereClause
Matching(u, type) ==
    {i \in 1..Len(log) : /\ log[i].userId = u
                         /\ type \in {"BUY", "SELL"} => log[i].transactionType = type}

\* order: [['transactionDate', 'DESC']]: the orders in which the store may
\* return the matching records, as sequences of their indices (their ids);
\* records of one transactionDate come in any order
NewestFirst(S) ==
    {seq \in [1..Cardinality(S) -> S] :
        /\ \A i, j \in 1..Cardinality(S) : i # j => seq[i] # seq[j]
        /\ \A i, j \in 1..Cardinality(S) :
              i < j => log[seq[i]].transactionDate >= log[seq[j]].transactionDate}

\* a page that starts one record early
PageOffByOne(seq, limit, offset) ==
    SubSeq(seq, IF offset > 0 THEN offset ELSE 1,
           IF offset + limit < Len(seq) THEN offset + limit ELSE Len(seq))

\* LIMIT limit OFFSET offset
Page(seq, limit, offset) ==
    SubSeq(seq, offset + 1, IF offset + limit < Len(seq) THEN offset + limit ELSE Len(seq))

\* await Transaction.findAndCountAll({ where, order, limit, offset }); res.json(...)
getTransactionHistory(p) ==
    /\ pc[p] = "gh_find"
    /\ LET found == Matching(req[p].userId, req[p].type) IN
       \E ordered \in NewestFirst(found) :
          LET rows == Page(ordered, req[p].limit, req[p].offset)
          IN Respond(p, [status |-> 200, kind |-> "History",
                         transactions |-> [i \in 1..Len(rows) |-> log[rows[i]]],
                         ids |-> rows,
                         totalCount |-> Cardinality(found),
                         hasMore |-> Cardinality(found) > req[p].offset + req[p].limit])
    /\ UNCHANGED <<cash, inv, nextId, log, lock, tx, ops, headerLoader, fails>>

\* the awaits on the store of the handlers that open no transaction
PlainAwaits ==
    {"a_user", "a_update", "d_find", "d_destroy", "gc_user", "ga_find", "gi_find", "gh_find"}

\* the price refresh of a read rejects: the inner catch answers without it
ReadUpdateFail(p) ==
    /\ pc[p] \in {"ga_update", "gi_update"}
    /\ fails < MaxFailures
    /\ fails' = fails + 1
    /\ IF pc[p] = "ga_update"
       THEN Respond(p, [status |-> 200, kind |-> "Investments",
                        data |-> {Reported(loc[p].key, loc[p].row,
                                           10 * loc[p].row.purchasePrice)}])
       ELSE Respond(p, [status |-> 200, kind |-> "Investment",
                        data |-> Reported(loc[p].key, loc[p].row, loc[p].stockPrice)])
    /\ UNCHANGED <<cash, inv, nextId, log, lock, tx, ops, headerLoader>>

\* catch (error) { res.status(500).json(...) } of a handler without transaction
PlainFail(p) ==
    /\ pc[p] \in PlainAwaits
    /\ fails < MaxFailures
    /\ fails' = fails + 1
    /\ Respond(p, Fail(500, "ServerError"))
    /\ UNCHANGED <<cash, inv, nextId, log, lock, tx, ops, headerLoader>>

createInvestment(p) ==
    \/ CreateValidate(p) \/ CreateGetPrice(p) \/ CreateFindUser(p) \/ CreateWriteInvestment(p)
    \/ CreateUpdateUser(p) \/ CreateRecord(p) \/ CreateCommit(p)

addCash(p) ==
    \/ AddCashValidate(p) \/ AddCashFindUser(p) \/ AddCashUpdate(p)

Next ==
    \E p \in Procs :
        \/ \E r \in Requests \cup ReadRequests : Begin(p, r, MaxOpsAll)
        \/ buyInvestment(p)
        \/ sellInvestment(p)
        \/ createInvestment(p)
        \/ addCash(p)
        \/ deleteInvestment(p)
        \/ getCashBalance(p)
        \/ getAllInvestments(p)
        \/ getInvestmentById(p)
        \/ getTransactionHistory(p)
        \/ StorageFail(p)
        \/ PlainFail(p)
        \/ ReadUpdateFail(p)
        \/ Catch(p)

\* every exported handler, for every user
Spec == Init /\ [][Next]_vars

NextRead ==
    \E p \in Procs :
        \/ \E r \in TradeRequests \cup ReadRequests :
              r.userId = TheUser /\ Begin(p, r, MaxOpsRead)
        \/ buyInvestment(p)
        \/ sellInvestment(p)
        \/ getCashBalance(p)
        \/ getAllInvestments(p)
        \/ getInvestmentById(p)
        \/ getTransactionHistory(p)
        \/ StorageFail(p)
        \/ PlainFail(p)
        \/ ReadUpdateFail(p)
        \/ Catch(p)

\* the buys, sells and reads of one user
SpecRead == Init /\ [][NextRead]_vars

NextCash ==
    \E p \in Procs :
        \/ \E r \in TradeRequests \cup AddCashRequests :
              r.userId = TheUser /\ Begin(p, r, MaxOpsCash)
        \/ buyInvestment(p)
        \/ sellInvestment(p)
        \/ addCash(p)
        \/ StorageFail(p)
        \/ PlainFail(p)
        \/ Catch(p)

\* the buys, sells and deposits of one user
SpecCash == Init /\ [][NextCash]_vars

NextBuy ==
    \E p \in Procs :
        \/ \E r \in BuyPathRequests : r.userId = TheUser /\ Begin(p, r, MaxOpsBuy)
        \/ buyInvestment(p)
        \/ createInvestment(p)
        \/ StorageFail(p)
        \/ Catch(p)

\* the buys of one user through buyInvestment and createInvestment, the symbol
\* spelled as the client sends it
SpecBuy == Init /\ [][NextBuy]_vars

NextFlow ==
    \E p \in Procs :
        \/ \E r \in FlowRequests : Begin(p, r, MaxOpsFlow)
        \/ buyInvestment(p)
        \/ sellInvestment(p)
        \/ StorageFail(p)
        \/ Catch(p)

\* the investment flow: one user's buys of FlowBuyQuantity shares and sales of
\* FlowSellQuantity shares
SpecFlow == InitFlow /\ [][NextFlow]_vars

NextPrice ==
    \E p \in Procs :
        \/ \E r \in TradeRequests \cup AllInvestmentsRequests \cup InvestmentByIdRequests :
              r.userId = TheUser /\ Begin(p, r, MaxOpsPrice)
        \/ buyInvestment(p)
        \/ sellInvestment(p)
        \/ getAllInvestments(p)
        \/ getInvestmentById(p)
        \/ StorageFail(p)
        \/ PlainFail(p)
        \/ ReadUpdateFail(p)
        \/ Catch(p)

\* the buys and sells of one user and the reads of the positions, which
\* refresh the stored currentPrice
SpecPrice == Init /\ [][NextPrice]_vars

\* ------------------------------------------------------------ HeaderLoader
\* init(): without a userId in localStorage, or on a page of skipPages, it
\* returns; else it calls loadHeader, which awaits the fetch of header.html
HeaderInit ==
    /\ headerLoader.at = "init"
    /\ \E userId \in BOOLEAN, skipPage \in BOOLEAN :
        headerLoader' = [headerLoader EXCEPT
                            !.at = IF userId /\ ~skipPage THEN "fetch" ELSE "returned"]
    /\ UNCHANGED server

\* loadHeader after the fetch: the header HTML is put into the page (with or
\* without the elements headerUserName and headerCashBalance), headerLoaded
\* becomes true and initializeHeaderWithRetry sets its first timer
LoadHeader ==
    /\ headerLoader.at = "fetch"
    /\ \E elements \in BOOLEAN :
        headerLoader' = [headerLoader EXCEPT !.at = "loaded", !.headerLoaded = TRUE,
                                             !.elements = elements,
                                             !.tryInitialize = TRUE]
    /\ UNCHANGED server

\* loadHeader when fetch or response.text() rejects: the catch block logs
LoadHeaderFail ==
    /\ headerLoader.at = "fetch"
    /\ headerLoader' = [headerLoader EXCEPT !.at = "failed"]
    /\ UNCHANGED server

\* tryInitialize, run by its timer: with the elements in the page it runs
\* directInitialize and loadCashBalanceDirect, which start two fetches of the
\* balance; without them it sets the timer again while initAttempts <
\* maxInitAttempts
TryInitialize ==
    /\ headerLoader.tryInitialize
    /\ headerLoader.fetches + 2 <= MaxFetches
    /\ LET attempts == headerLoader.initAttempts + 1 IN
       headerLoader' =
           IF headerLoader.elements
           THEN [headerLoader EXCEPT !.initAttempts = attempts, !.tryInitialize = FALSE,
                                     !.fetches = @ + 2]
           ELSE [headerLoader EXCEPT !.initAttempts = attempts,
                                     !.tryInitialize = attempts < maxInitAttempts]
    /\ UNCHANGED server

\* what the header shows after textContent is set: nothing changes without
\* the element headerCashBalance
Shown(h, balance) == IF h.elements THEN balance ELSE h.text

\* loadCashBalanceDirect after its fetch: the balance of the response, or
\* $0.00 when the response is no success or the fetch rejects
BalanceFetched ==
    /\ headerLoader.fetches > 0
    /\ \E balance \in HeaderBalances \cup {0} :
        headerLoader' = [headerLoader EXCEPT !.fetches = @ - 1,
                                             !.text = Shown(headerLoader, balance)]
    /\ UNCHANGED server

\* refreshUserInfo(): with the header loaded, loadCashBalanceDirect and
\* directInitialize, which start two fetches of the balance
RefreshUserInfo ==
    /\ headerLoader.headerLoaded
    /\ headerLoader.fetches + 2 <= MaxFetches
    /\ headerLoader' = [headerLoader EXCEPT !.fetches = @ + 2]
    /\ UNCHANGED server

\* the body of updateCashBalance(newBalance): with the header loaded the
\* balance is shown, else setTimeout(() => this.updateCashBalance(newBalance), 500)
Retried(h, newBalance) ==
    IF h.headerLoaded
    THEN [h EXCEPT !.text = Shown(h, newBalance)]
    ELSE [h EXCEPT !.retries = Append(@, newBalance)]

\* updateCashBalance(newBalance), called by another component of the page
UpdateCashBalance ==
    /\ headerLoader.at # "init"
    /\ Len(headerLoader.calls) < MaxCalls
    /\ \E newBalance \in HeaderBalances :
        headerLoader' =
            Retried([headerLoader EXCEPT
                        !.calls = Append(@, [newBalance |-> newBalance,
                                             loaded |-> headerLoader.headerLoaded])],
                    newBalance)
    /\ UNCHANGED server

\* the 500 ms timer of the oldest pending retry fires (the timers have one
\* delay, so they fire in the order they were set)
RetryFire ==
    /\ headerLoader.retries # <<>>
    /\ headerLoader' = Retried([headerLoader EXCEPT !.retries = Tail(@),
                                                    !.fired = (@ + 1) % RetryClock],
                               Head(headerLoader.retries))
    /\ UNCHANGED server

NextHeader ==
    \/ HeaderInit
    \/ LoadHeader
    \/ LoadHeaderFail
    \/ TryInitialize
    \/ BalanceFetched
    \/ RefreshUserInfo
    \/ UpdateCashBalance
    \/ RetryFire

\* the header of one page
SpecHeader == Init /\ [][NextHeader]_vars

\* the header of one page when no timer and no fetch is held back for ever
SpecHeaderLive ==
    /\ Init /\ [][NextHeader]_vars
    /\ WF_vars(HeaderInit) /\ WF_vars(LoadHeader \/ LoadHeaderFail)
    /\ WF_vars(TryInitialize) /\ WF_vars(BalanceFetched) /\ WF_vars(RetryFire)

\* ------------------------------------------------------------ claims
\* process p takes a step of the handler of request kind op
Steps(p, op) == req[p].op = op /\ pc'[p] # pc[p]
\* process p commits its transaction and answers
Commits(p) == pc[p] \in {"b_commit", "s_commit", "c_commit"} /\ pc'[p] = "idle"
\* the response just sent answers a request of kind op with outcome kind
Answered(op, kind) == res.kind = kind /\ res.req.op = op

\* C1: No overspend.  When buyInvestment has its price and reads a cashBalance
\* below totalCost, it answers 400 insufficient funds; and no step of the
\* handler up to and including that answer changes a committed cashBalance,
\* position row or transaction record.
C1_NoOverspend ==
    [][\A p \in Procs :
        /\ (Steps(p, "buy") /\ pc[p] = "b_user" /\ pc'[p] # "catch"
              /\ cash[req[p].userId] < loc[p].total)
           => /\ pc'[p] = "idle"
              /\ res'.proc = p /\ res'.status = 400 /\ res'.kind = "InsufficientFunds"
              /\ tx'[p].st = "rollback"
        /\ (Steps(p, "buy") /\ pc[p] \in {"b_validate", "b_price", "b_user"})
           => Committed' = Committed]_vars

\* C1 witness: a buy was refused for insufficient funds
C1_Witness == Answered("buy", "InsufficientFunds") /\ res.currentBalance > 0

\* C2: No oversell.  When sellInvestment finds its position and the quantity
\* asked exceeds the quantity held, it answers 400 insufficient shares; and no
\* step of the handler up to and including that answer changes a committed
\* cashBalance, position row or transaction record.
C2_NoOversell ==
    [][\A p \in Procs :
        /\ (Steps(p, "sell") /\ pc[p] = "s_inv" /\ pc'[p] # "catch"
              /\ TargetKey(p) # <<>>
              /\ inv[TargetKey(p)].id = req[p].id
              /\ req[p].quantity > inv[TargetKey(p)].quantity)
           => /\ pc'[p] = "idle"
              /\ res'.proc = p /\ res'.status = 400 /\ res'.kind = "InsufficientShares"
              /\ res'.owned = inv[TargetKey(p)].quantity
              /\ tx'[p].st = "rollback"
        /\ (Steps(p, "sell") /\ pc[p] \in {"s_validate", "s_inv"})
           => Committed' = Committed]_vars

\* C2 witness: a sale of more shares than held was refused
C2_Witness == Answered("sell", "InsufficientShares") /\ res.requested > res.owned /\ res.owned > 0

\* C3: Atomicity under failure.  A step of a buy or a sell changes the
\* committed state only by committing; a commit applies the cash change, the
\* position change and the log append together; and a storage failure at any
\* await (after the cash update, the position write, the log append, or at
\* commit) and the catch block that follows leave the committed state as it
\* was and the transaction finished with nothing of it applied.
C3_AtomicUnderFailure ==
    [][\A p \in Procs :
        /\ ((Steps(p, "buy") \/ Steps(p, "sell")) /\ ~Commits(p))
           => Committed' = Committed
        /\ ((Steps(p, "buy") \/ Steps(p, "sell")) /\ Commits(p))
           => /\ Len(log') = Len(log) + 1
              /\ inv' # inv
              /\ LET r == log'[Len(log')] IN
                   cash' = [cash EXCEPT ![r.userId] =
                               IF r.transactionType = "BUY" THEN @ - r.totalAmount
                               ELSE @ + r.totalAmount]
        /\ (pc[p] = "catch" /\ pc'[p] = "idle")
           => /\ tx'[p].st \in {"rollback", "commit"}
              /\ tx'[p].cash = <<>> /\ tx'[p].invw = <<>> /\ tx'[p].logw = <<>>
              /\ \A r \in Rows : lock'[r] # p]_vars

\* C3 witness: a sale whose cash update is pending and whose position write
\* is not yet made has failed, and is in its catch block
C3_Witness ==
    \E p \in Procs :
        /\ pc[p] = "catch" /\ req[p].op = "sell"
        /\ tx[p].st = "open" /\ tx[p].cash # <<>> /\ tx[p].invw = <<>>

\* the transactions rows of position k, of one side, as indices of log
TradesOf(k, side) ==
    {i \in 1..Len(log) : /\ log[i].userId = k[1] /\ log[i].symbol = k[2]
                         /\ log[i].transactionType = side}
QuantityOf == [i \in 1..Len(log) |-> log[i].quantity]
AmountOf == [i \in 1..Len(log) |-> log[i].totalAmount]
BuysOnly == \A i \in 1..Len(log) : log[i].transactionType = "BUY"

\* C4: Concurrency serialization of buys.  While only buys have committed, in
\* whatever interleaving they ran, every position holds the sum of the
\* quantities and the sum of the total costs of its committed buys (a row
\* exists exactly when there was one), and every cashBalance is the initial
\* balance less the total costs of the user's committed buys: the result of
\* the buys applied one after another.  N buys of one share at one price
\* leave quantity N, totalInvested N x price and cashBalance initial - N x price.
C4_BuysSerialized ==
    BuysOnly =>
        /\ \A k \in Keys :
            LET B == TradesOf(k, "BUY") IN
            /\ inv[k].id # 0 <=> B # {}
            /\ inv[k].quantity = SumOver(B, QuantityOf)
            /\ inv[k].totalInvested = SumOver(B, AmountOf)
            /\ (\A i \in B : log[i].quantity = 1 /\ \A j \in B : log[j].price = log[i].price)
               => \A i \in B : /\ inv[k].quantity = Cardinality(B)
                               /\ inv[k].totalInvested = Cardinality(B) * log[i].price
        /\ \A u \in Users :
            cash[u] = InitCash - SumOver(RecordsOf(u, "BUY"), AmountOf)

\* C4 witness: two buys of one share at the same price were in flight together
\* (the second to commit began before the first committed) and both committed
C4_Witness ==
    /\ Answered("buy", "Bought") /\ res.req.startLog = 0
    /\ Len(log) = 2 /\ BuysOnly
    /\ log[1].quantity = 1 /\ log[2].quantity = 1 /\ log[1].price = log[2].price
    /\ inv[<<res.req.userId, res.req.symbol>>].quantity = 2

\* C5: Concurrent sells are serialized.  In every interleaving of buys and
\* sells, for every position the shares sold never exceed the shares bought,
\* the stored quantity is their difference and never negative (no row when it
\* is 0), and every cashBalance holds the credit of every committed sale: the
\* initial balance less the committed buys plus the committed sales.
C5_SellsSerialized ==
    /\ \A k \in Keys :
        LET bought == SumOver(TradesOf(k, "BUY"), QuantityOf)
            sold == SumOver(TradesOf(k, "SELL"), QuantityOf)
        IN  /\ sold <= bought
            /\ inv[k].quantity = bought - sold
            /\ inv[k].quantity >= 0
            /\ inv[k].id # 0 <=> bought - sold > 0
    /\ \A u \in Users :
        cash[u] = InitCash - SumOver(RecordsOf(u, "BUY"), AmountOf)
                           + SumOver(RecordsOf(u, "SELL"), AmountOf)

\* C5 witness: two sells of the same position were in flight together and both
\* committed, the second one selling what the first one left
C5_Witness ==
    /\ Answered("sell", "Sold") /\ res.remainingShares = 0
    /\ Len(log) = res.req.startLog + 2
    /\ log[Len(log)].transactionType = "SELL" /\ log[Len(log) - 1].transactionType = "SELL"
    /\ log[Len(log)].quantity < InitQty

\* C6: cashBalance >= 0 for every user in every committed state, under every
\* sequence and interleaving of buys (buyInvestment, createInvestment), sells
\* and deposits.
C6_CashNonNegative == \A u \in Users : cash[u] >= 0

\* C6 witness: a purchase has spent an account down to exactly 0
C6_Witness == res.kind = "Bought" /\ cash[res.req.userId] = 0

\* the pcs of a buy after its funds check, and of a sell after its share check
BuyAccepted == {"b_inv", "b_write", "b_cash", "b_record", "b_commit"}
SellAccepted == {"s_price", "s_user", "s_cash", "s_record", "s_write", "s_commit"}

\* C7: Successful buy effect.  A buy with a positive integer quantity and a
\* positive oracle price whose locked read of cashBalance is >= totalCost =
\* round2(price x quantity) (equality included) passes the funds check and is
\* from then on answered only by success (or by the server error of a failed
\* store call); its commit lowers cashBalance by exactly totalCost, returns
\* remainingCash equal to the committed balance, and appends exactly one BUY
\* record with that quantity and totalAmount = totalCost.
C7_BuyEffect ==
    [][\A p \in Procs :
        Steps(p, "buy") =>
            LET u == req[p].userId
                totalCost == TotalCostOf(loc[p].stockPrice, req[p].quantity)
            IN  /\ (pc[p] = "b_user" /\ pc'[p] # "catch" /\ cash[u] >= totalCost)
                   => pc'[p] = "b_inv"
                /\ (pc[p] \in BuyAccepted /\ pc'[p] = "idle")
                   => (Commits(p) /\ res'.kind = "Bought") \/ res'.kind = "ServerError"
                /\ Commits(p) =>
                    /\ req[p].quantity \in 1..MaxQty /\ loc[p].stockPrice > 0
                    /\ cash[u] >= totalCost
                    /\ cash'[u] = cash[u] - totalCost
                    /\ \A v \in Users \ {u} : cash'[v] = cash[v]
                    /\ res'.kind = "Bought" /\ res'.totalCost = totalCost
                    /\ res'.remainingCash = cash'[u]
                    /\ \E d \in 0..MaxDate :
                        log' = Append(log, Stamped(TradeRecord(u, req[p].symbol, "BUY",
                                                               req[p].quantity,
                                                               Round2Price(loc[p].stockPrice),
                                                               totalCost), d))
      ]_vars

\* C7 witness: a buy whose total cost equalled the whole balance has committed
C7_Witness ==
    /\ Answered("buy", "Bought") /\ res.remainingCash = 0 /\ res.totalCost > 0
    /\ log[Len(log)].totalAmount = res.totalCost

\* C8: Weighted-average accumulation.  A successful buy of quantity q with
\* total cost c creates the position with (quantity, totalInvested) = (q, c)
\* when the user holds none of that symbol, and otherwise changes the existing
\* position to (oldQuantity + q, oldTotalInvested + c); so q1 at p1 then q2 at
\* p2 leaves quantity q1 + q2 and totalInvested round2(q1 x p1) + round2(q2 x p2).
C8_Accumulation ==
    [][\A p \in Procs :
        (Steps(p, "buy") /\ Commits(p)) =>
            LET k == <<req[p].userId, req[p].symbol>>
                q == req[p].quantity
                c == TotalCostOf(loc[p].stockPrice, q)
            IN  /\ inv[k].id = 0 =>
                    /\ inv'[k].id # 0
                    /\ inv'[k].quantity = q /\ inv'[k].totalInvested = c
                /\ inv[k].id # 0 =>
                    /\ inv'[k].id = inv[k].id
                    /\ inv'[k].quantity = inv[k].quantity + q
                    /\ inv'[k].totalInvested = inv[k].totalInvested + c
                /\ \A j \in Keys \ {k} : inv'[j] = inv[j]
                /\ res'.investment = inv'[k]
      ]_vars

\* C8 witness: two buys of the same symbol at different prices have committed
C8_Witness ==
    /\ Answered("buy", "Bought") /\ Len(log) = 2 /\ BuysOnly
    /\ log[1].price # log[2].price /\ log[1].symbol = log[2].symbol
    /\ res.investment.quantity = log[1].quantity + log[2].quantity
    /\ res.investment.totalInvested = log[1].totalAmount + log[2].totalAmount

\* C9: Partial sell effect.  A sale of s shares, 0 < s < position.quantity, at
\* the sale's price per share (the oracle's price in cents, or the position's
\* last price) commits with cashBalance raised by saleValue = round2(price x s),
\* position.quantity lowered by s, position.totalInvested lowered by
\* removedBasis = round2(totalInvested x s / position.quantity), the reported
\* profitLoss = saleValue - removedBasis, and remainingShares equal to the
\* committed remaining quantity.
C9_PartialSell ==
    [][\A p \in Procs :
        (Steps(p, "sell") /\ Commits(p) /\ req[p].quantity < inv[loc[p].key].quantity) =>
            LET u == req[p].userId
                k == loc[p].key
                s == req[p].quantity
                saleValue == res'.pricePerShare * s
                removedBasis == RoundDiv(inv[k].totalInvested * s, inv[k].quantity)
            IN  /\ s > 0 /\ k[1] = u /\ inv[k].id = req[p].id
                /\ res'.kind = "Sold" /\ res'.totalReceived = saleValue
                /\ res'.pricePerShare \in {Round2Price(x) : x \in Prices \cup {0}}
                                          \cup {inv[k].currentPrice}
                /\ cash'[u] = cash[u] + saleValue
                /\ res'.newCashBalance = cash'[u]
                /\ inv'[k].id = inv[k].id
                /\ inv'[k].quantity = inv[k].quantity - s
                /\ inv'[k].totalInvested = inv[k].totalInvested - removedBasis
                /\ res'.profitLoss = saleValue - removedBasis
                /\ res'.remainingShares = inv'[k].quantity
                /\ res'.remainingShares > 0
      ]_vars

\* C9 witness: a partial sale whose removed cost was rounded up has committed
C9_Witness ==
    /\ Answered("sell", "Sold") /\ res.remainingShares > 0
    /\ LET removedBasis == res.totalReceived - res.profitLoss
           left == inv[<<res.req.userId, TheSymbol>>]
       IN  /\ left.id = res.req.id /\ left.quantity = res.remainingShares
           /\ removedBasis * (res.quantitySold + left.quantity)
                  > (removedBasis + left.totalInvested) * res.quantitySold

\* C10: Full liquidation deletes.  A sale whose quantity equals
\* position.quantity passes the share check, commits, removes the position row
\* entirely, credits the sale value, and reports remainingShares = 0.
C10_FullLiquidation ==
    [][\A p \in Procs :
        Steps(p, "sell") =>
            /\ (/\ pc[p] = "s_inv" /\ pc'[p] # "catch" /\ TargetKey(p) # <<>>
                /\ inv[TargetKey(p)].id = req[p].id
                /\ req[p].quantity = inv[TargetKey(p)].quantity)
               => pc'[p] = "s_price"
            /\ (pc[p] \in SellAccepted /\ pc'[p] = "idle")
               => (Commits(p) /\ res'.kind = "Sold") \/ res'.kind = "ServerError"
            /\ (Commits(p) /\ req[p].quantity = inv[loc[p].key].quantity) =>
                LET u == req[p].userId
                    k == loc[p].key
                IN  /\ inv'[k] = NoRow
                    /\ \A j \in Keys \ {k} : inv'[j] = inv[j]
                    /\ cash'[u] = cash[u] + res'.pricePerShare * req[p].quantity
                    /\ res'.totalReceived = res'.pricePerShare * req[p].quantity
                    /\ res'.remainingShares = 0
      ]_vars

\* C10 witness: a sale of a whole position has committed and the row is gone
C10_Witness ==
    /\ Answered("sell", "Sold") /\ res.remainingShares = 0
    /\ res.quantitySold = InitQty /\ res.req.startLog = 1 /\ Len(log) = 2
    /\ \A k \in Keys : inv[k] = NoRow
    /\ cash[res.req.userId] = res.newCashBalance

\* C11: in every committed state reached by buys and sells, every stored
\* position row has quantity >= 1.
C11_NoEmptyPosition == \A k \in Keys : inv[k].id # 0 => inv[k].quantity >= 1

\* the user a step of process p acts for
ActingUser(p) == IF req[p].op # "none" THEN req[p].userId ELSE req'[p].userId
\* the committed account, positions and records of user u
LedgerOf(u) ==
    <<cash[u], [s \in Symbols |-> inv[<<u, s>>]],
      SelectSeq(log, LAMBDA r : r.userId = u)>>

\* C12: Ownership scoping.  A sellInvestment by user A that names a position
\* of another user, or no position at all, is answered position-not-found
\* (404) and leaves every cashBalance, position row and record as it was; and
\* no step of any request of A changes the account, the positions or the
\* records of another user B.
C12_OwnershipScoping ==
    [][\A p \in Procs :
        /\ (/\ Steps(p, "sell") /\ pc[p] = "s_inv" /\ pc'[p] # "catch"
            /\ ~ \E k \in Keys : k[1] = req[p].userId /\ inv[k].id = req[p].id)
           => /\ pc'[p] = "idle"
              /\ res'.kind = "PositionNotFound" /\ res'.status = 404
              /\ Committed' = Committed
        /\ pc'[p] # pc[p]
           => \A b \in Users \ {ActingUser(p)} : LedgerOf(b)' = LedgerOf(b)
      ]_vars

\* C12 witness: a sell naming the position of another user was answered 404
C12_Witness ==
    /\ Answered("sell", "PositionNotFound")
    /\ \E k \in Keys : inv[k].id = res.req.id /\ k[1] # res.req.userId

C14_SellToleratesOracleFailure ==
    [][\A p \in Procs :
        (Steps(p, "sell") /\ pc[p] = "s_price") =>
            /\ pc'[p] = "s_user"
            /\ loc'[p].price \in {Round2Price(x) : x \in Prices \cup {0}}
                                    \cup {loc[p].row.currentPrice}
      ]_vars

\* C15: No row lock is held across the oracle price fetch.  While the oracle
\* call of a buy or a sell is in flight, the handler's transaction holds no
\* lock on the user's row or on a position row; and a buy has not yet entered
\* its transaction.
C15_NoLockAcrossOracle ==
    \A p \in Procs :
        /\ pc[p] \in {"b_price", "s_price"} => \A r \in Rows : lock[r] # p
        /\ pc[p] = "b_price" => tx[p].st # "open"

\* C16: A record is in the log exactly when its trade committed.  The log
\* changes only in the step that commits a buy or a sell, and then by exactly
\* one appended record carrying the trade's user, side, symbol, quantity and
\* total, in the same step in which the cashBalance moves by that total and
\* the position row changes; every answer other than the success of a trade
\* (validation, pricing, funds, shares, not found, server error after
\* rollback) leaves the log as it was.
C16_RecordIffCommitted ==
    [][/\ log' # log =>
            \E p \in Procs :
                LET u == req[p].userId
                    buy == req[p].op = "buy"
                    r == log'[Len(log')]
                IN  /\ Commits(p)
                    /\ log' = Append(log, r)
                    /\ r.userId = u
                    /\ r.transactionType = (IF buy THEN "BUY" ELSE "SELL")
                    /\ r.symbol = loc[p].key[2]
                    /\ r.quantity = req[p].quantity
                    /\ r.totalAmount = (IF buy THEN res'.totalCost ELSE res'.totalReceived)
                    /\ cash'[u] = (IF buy THEN cash[u] - r.totalAmount
                                          ELSE cash[u] + r.totalAmount)
                    /\ inv'[loc[p].key] # inv[loc[p].key]
       /\ \A p \in Procs :
            (pc[p] # "idle" /\ pc'[p] = "idle") =>
                (res'.kind \in {"Bought", "Sold"} <=> Len(log') = Len(log) + 1)
      ]_vars

\* C16 witness: a sell whose record had been created inside its transaction
\* failed at the write of its position and is in the catch block, the
\* transaction still open; the log holds no record of it
C16_Witness ==
    \E p \in Procs :
        /\ req[p].op = "sell" /\ pc[p] = "catch" /\ tx[p].st = "open"
        /\ tx[p].logw # <<>>
        /\ Len(log) = req[p].startLog

\* C17: The log is append-only.  No step of any handler (buy through either
\* entry point, sell, deposit, delete-investment, any read) removes a record
\* or changes a stored record: the log after a step is the log before it,
\* followed by the records the step appends.
C17_AppendOnly ==
    [][Len(log') >= Len(log) /\ SubSeq(log', 1, Len(log)) = log]_vars

\* C17 witness: a position has been deleted and the records of its trades are
\* still in the log
C17_Witness ==
    /\ Answered("delete", "Deleted")
    /\ \E i \in 1..Len(log) :
        /\ log[i].userId = res.req.userId
        /\ inv[<<log[i].userId, log[i].symbol>>].id = 0
    /\ \A k \in Keys : inv[k].id # res.req.id

\* cashBalance of u plus the totalInvested of every position u holds
HoldingsOf(u) ==
    cash[u] + SumOver({k \in Keys : k[1] = u /\ inv[k].id # 0},
                      [k \in Keys |-> inv[k].totalInvested])

\* cashBalance of u as the records of u's trades give it: InitCash less the
\* totalAmount of the BUY records plus the totalAmount of the SELL records
LedgerCash(u) ==
    InitCash - SumOver(RecordsOf(u, "BUY"), [i \in 1..Len(log) |-> log[i].totalAmount])
             + SumOver(RecordsOf(u, "SELL"), [i \in 1..Len(log) |-> log[i].totalAmount])

\* C18 as stated: Conservation.  After any buys and sells of one user,
\* cashBalance plus the totalInvested of the open positions equals the initial
\* cashBalance less the totalCost of the buys plus the saleValue of the sells.
C18_ConservationAsStated ==
    res.kind \in {"Bought", "Sold"} => HoldingsOf(TheUser) = LedgerCash(TheUser)

\* C18: Conservation.  A committed buy moves totalCost from cashBalance into
\* the position's totalInvested and leaves their sum as it was; a committed
\* sell changes the sum by exactly the profitLoss it reports (saleValue less
\* the cost basis it removes); no other step changes it.  So cashBalance plus
\* the totalInvested of the open positions equals the initial cashBalance plus
\* the profitLoss of the sells, to the cent.
C18_Conservation ==
    [][\A u \in Users :
        IF \E p \in Procs : Commits(p) /\ req[p].userId = u /\ req[p].op = "sell"
        THEN HoldingsOf(u)' = HoldingsOf(u) + res'.profitLoss
        ELSE HoldingsOf(u)' = HoldingsOf(u)
      ]_vars

\* C18 witness: a sell of part of a position at a price other than its cost
\* has committed, and the sum has moved away from the initial cashBalance
C18_Witness ==
    /\ Answered("sell", "Sold")
    /\ res.profitLoss # 0 /\ res.remainingShares > 0
    /\ res.totalReceived % 100 # 0
    /\ HoldingsOf(TheUser) # InitCash

\* cashBalance of u after the first n records of the log, and the number of
\* shares u then holds
LedgerCashAt(u, n) ==
    InitCash
    - SumOver({i \in RecordsOf(u, "BUY") : i <= n}, [i \in 1..Len(log) |-> log[i].totalAmount])
    + SumOver({i \in RecordsOf(u, "SELL") : i <= n}, [i \in 1..Len(log) |-> log[i].totalAmount])
LedgerQuantityAt(u, n) ==
    SumOver({i \in RecordsOf(u, "BUY") : i <= n}, [i \in 1..Len(log) |-> log[i].quantity])
    - SumOver({i \in RecordsOf(u, "SELL") : i <= n}, [i \in 1..Len(log) |-> log[i].quantity])

\* C19: Isolation of readers.  What getCashBalance, getAllInvestments and
\* getInvestmentById answer while buys and sells of the same user are running
\* is the cashBalance, or the position, as it stood after a whole number of
\* committed trades, none of them partly applied: the state after the trades
\* committed when the reader was called, or after one that committed while it
\* ran.
C19_ReadersIsolated ==
    LET u == res.req.userId
        during == res.req.startLog..Len(log)
    IN  /\ res.kind = "CashBalance" =>
            \E n \in during : res.cashBalance = LedgerCashAt(u, n)
        /\ res.kind = "Investments" =>
            \E n \in during :
                IF res.data = {} THEN LedgerQuantityAt(u, n) = 0
                ELSE \A d \in res.data : d.quantity > 0 /\ d.quantity = LedgerQuantityAt(u, n)
        /\ res.kind = "Investment" =>
            \E n \in during :
                res.data.quantity > 0 /\ res.data.quantity = LedgerQuantityAt(u, n)

\* C19 witness: getCashBalance has answered while a trade of the same user had
\* already written its new cashBalance inside its open transaction, and what
\* it answered is the stored balance, not the pending one
C19_Witness ==
    /\ Answered("cashBalance", "CashBalance")
    /\ \E p \in Procs :
        /\ req[p].userId = res.req.userId
        /\ tx[p].st = "open" /\ tx[p].cash # <<>>
        /\ tx[p].cash[Len(tx[p].cash)] # res.cashBalance
    /\ res.cashBalance = cash[res.req.userId]

\* C20: At most one position row per (userId, symbol).  Under every
\* interleaving of buys through buyInvestment and createInvestment, sells and
\* the other handlers, no step stores a new row for a key that has a stored
\* row (the row of a held key keeps its id), no id is stored under two keys,
\* and the commit of a buy of a held symbol leaves that row in place, with the
\* bought shares added when the buy came through buyInvestment.
C20_OneRowPerKey ==
    [][/\ \A k \in Keys :
            (inv[k].id # 0 /\ inv'[k].id # 0) => inv'[k].id = inv[k].id
       /\ \A k1, k2 \in Keys :
            (k1 # k2 /\ inv'[k1].id # 0) => inv'[k1].id # inv'[k2].id
       /\ \A p \in Procs :
            (Commits(p) /\ req[p].op \in {"buy", "create"} /\ inv[loc[p].key].id # 0) =>
                /\ inv'[loc[p].key].id = inv[loc[p].key].id
                /\ req[p].op = "buy" =>
                     inv'[loc[p].key].quantity = inv[loc[p].key].quantity + req[p].quantity
      ]_vars

\* C20 witness: createInvestment found no row, another buy of the symbol was
\* committed meanwhile, and its insert was rejected by the unique index
C20_Witness ==
    \E p \in Procs :
        /\ req[p].op = "create" /\ pc[p] = "catch" /\ fails = 0
        /\ loc[p].row.id = 0 /\ loc[p].key # <<>>
        /\ inv[loc[p].key].id # 0

\* C21: Deposits and trades do not lose updates.  With addCash running beside
\* a buy or a sell of the same user, the deposit, when it is answered, raises
\* the stored cashBalance by its amount (the first deposit of a behaviour: the
\* balance it meets is the one the buys and sells committed so far have left),
\* every committed buy lowers it by its totalCost and every committed sell
\* raises it by its saleValue, whatever the interleaving; so the final
\* cashBalance is the initial one plus the deposit, less the buys, plus the
\* sells.
C21_NoLostCashUpdate ==
    [][\A p \in Procs :
        LET u == req[p].userId IN
        /\ (Steps(p, "addCash") /\ pc[p] = "a_update" /\ res'.kind = "Deposited"
              /\ cash[u] = LedgerCash(u))
              => cash'[u] = cash[u] + req[p].amount
        /\ (Commits(p) /\ req[p].op = "buy") => cash'[u] = cash[u] - res'.totalCost
        /\ (Commits(p) /\ req[p].op = "sell") => cash'[u] = cash[u] + res'.totalReceived
      ]_vars

\* C22: No lost debit through createInvestment.  When createInvestment commits
\* a purchase while the purchases committed since it was called were all of
\* other symbols, the stored cashBalance falls by the totalCost of the
\* purchase; so with two concurrent createInvestment calls of one user for
\* different symbols the final cashBalance is the initial one less the
\* totalCost of every purchase that committed.
C22_NoLostDebit ==
    [][\A p \in Procs :
        (/\ Commits(p) /\ req[p].op = "create"
         /\ \A i \in (req[p].startLog + 1)..Len(log) :
              log[i].symbol # ToUpperCase(req[p].symbol))
        => cash'[req[p].userId] = cash[req[p].userId] - log'[Len(log')].totalAmount
      ]_vars

\* C23: A position row is removed only by a sell that exhausts its quantity.
\* Every step that removes a stored position, or lowers its quantity, is the
\* commit of a sell, which in the same step credits the user's cashBalance
\* with the sale value and appends a SELL record for the symbol; and a
\* cashBalance changes only in the commit of a buy or a sell or in a deposit.
C23_RemovedOnlyBySell ==
    [][/\ \A k \in Keys :
            (inv[k].id # 0 /\ (inv'[k].id = 0 \/ inv'[k].quantity < inv[k].quantity)) =>
                \E p \in Procs :
                    /\ Commits(p) /\ req[p].op = "sell" /\ loc[p].key = k
                    /\ Len(log') = Len(log) + 1
                    /\ log'[Len(log')].transactionType = "SELL"
                    /\ log'[Len(log')].symbol = k[2]
                    /\ cash'[k[1]] = cash[k[1]] + log'[Len(log')].totalAmount
       /\ \A u \in Users :
            cash'[u] # cash[u] =>
                \E p \in Procs :
                    /\ req[p].userId = u
                    /\ \/ Commits(p)
                       \/ req[p].op = "addCash" /\ res'.kind = "Deposited"
      ]_vars

\* C24: Symbol normalization.  Every transaction record carries the upper-cased
\* symbol, whichever buy entry point stored it and however the client spelled
\* the symbol.
C24_SymbolUpperCased ==
    \A i \in 1..Len(log) : log[i].symbol = ToUpperCase(log[i].symbol)

\* a buy or sell whose quantity is not a positive number, or a buy without a
\* symbol
InvalidInput(r) ==
    /\ r.op \in {"buy", "sell"}
    /\ r.quantity <= 0 \/ (r.op = "buy" /\ r.symbol = "")

\* C25: Invalid input is rejected before anything starts.  The first step of a
\* buy or sell with invalid input answers 400 invalid input, with no transaction
\* opened for the request, no call of the oracle, no row read or locked and
\* nothing stored.
C25_RejectedBeforeIO ==
    [][\A p \in Procs :
        (InvalidInput(req[p]) /\ pc'[p] # pc[p]) =>
            /\ pc[p] \in {"b_validate", "s_validate"} /\ pc'[p] = "idle"
            /\ res'.kind = "InvalidInput" /\ res'.status = 400
            /\ tx[p].st = "none" /\ tx'[p].st = "none"
            /\ \A r \in Rows : lock[r] # p
            /\ Committed' = Committed
      ]_vars

\* C26: The insufficient-funds answer of a buy, through either entry point,
\* reports both the user's current cashBalance and the required amount.
C26_FundsErrorReportsBoth ==
    res.kind = "InsufficientFunds" =>
        /\ {"currentBalance", "required"} \subseteq DOMAIN res
        /\ res.currentBalance = cash[res.req.userId]

\* C27: getTransactionHistory answers with records of the requesting user only,
\* of the requested side when type is BUY or SELL, newest first, as the page of
\* at most limit records that starts after the offset newest ones; totalCount
\* is the number of all matching records and hasMore is true exactly when
\* totalCount > offset + limit.
C27_HistoryPage ==
    [][\A p \in Procs :
        (Steps(p, "history") /\ res'.kind = "History") =>
            LET q == req[p]
                match == {i \in 1..Len(log) :
                            /\ log[i].userId = q.userId
                            /\ q.type \in {"BUY", "SELL"} => log[i].transactionType = q.type}
                n == Cardinality(match)
                page == res'.transactions
                left == IF n > q.offset THEN n - q.offset ELSE 0
            IN  /\ Len(page) = (IF left < q.limit THEN left ELSE q.limit)
                /\ Len(res'.ids) = Len(page)
                /\ \A i \in 1..Len(page) :
                    /\ res'.ids[i] \in match /\ page[i] = log[res'.ids[i]]
                    /\ \A j \in 1..Len(page) :
                        /\ i # j => res'.ids[i] # res'.ids[j]
                        /\ i < j => page[i].transactionDate >= page[j].transactionDate
                    /\ Cardinality({m \in match :
                                      log[m].transactionDate > page[i].transactionDate})
                         <= q.offset + i - 1
                    /\ Cardinality({m \in match :
                                      log[m].transactionDate >= page[i].transactionDate})
                         >= q.offset + i
                /\ res'.totalCount = n
                /\ res'.hasMore = (n > q.offset + q.limit)
      ]_vars

\* C27 witness: a history query with limit 1 was answered with the newer of
\* the user's two records, of different dates, and hasMore true
C27_Witness ==
    /\ Answered("history", "History")
    /\ res.req.limit = 1 /\ res.req.offset = 0
    /\ res.totalCount = 2 /\ res.hasMore /\ Len(res.transactions) = 1
    /\ Len(log) = 2 /\ log[1].transactionDate < log[2].transactionDate
    /\ res.transactions[1] = log[2]

\* C28: The order of transaction records is total and deterministic.  The
\* records of a history page come by transactionDate, newest first, and records
\* of one transactionDate by insertion order (their ids), the later one
\* first.
C28_TiesByInsertionOrder ==
    res.kind = "History" =>
        \A i, j \in 1..Len(res.ids) : i < j => res.ids[i] > res.ids[j]

\* C29: The investment flow.  An account of 5000.00 with no position that buys
\* 10 shares quoted at 150.00 is not refused, is answered remainingCash 3500.00
\* and is left with 3500.00 and a position of quantity 10; a sale of 5 of these
\* shares at 150.00 is not refused, is answered remainingShares 5 and
\* newCashBalance 4250.00, and leaves 4250.00 and a stored position of
\* quantity 5.
C29_InvestmentFlow ==
    [][\A p \in Procs :
        LET u == req[p].userId
            k == <<u, FlowSymbol>>
            buys == /\ req[p].op = "buy" /\ req[p].quantity = 10 /\ req[p].symbol = FlowSymbol
                    /\ cash[u] = 5000 * 100 /\ inv[k] = NoRow
                    /\ loc[p].stockPrice = 150 * 1000
            sells == /\ req[p].op = "sell" /\ req[p].quantity = 5
                     /\ cash[u] = 3500 * 100
                     /\ inv[k].id = req[p].id /\ inv[k].quantity = 10
        IN  /\ (buys /\ pc[p] = "b_user" /\ pc'[p] \notin {"b_user", "catch"})
                => pc'[p] = "b_inv"
            /\ (buys /\ Commits(p))
                => /\ res'.kind = "Bought" /\ res'.remainingCash = 3500 * 100
                   /\ res'.investment.quantity = 10
                   /\ cash'[u] = 3500 * 100 /\ inv'[k].quantity = 10
            /\ (sells /\ pc[p] = "s_inv" /\ pc'[p] \notin {"s_inv", "catch"})
                => pc'[p] = "s_price"
            /\ (sells /\ Commits(p) /\ loc[p].price = 150 * 100)
                => /\ res'.kind = "Sold" /\ res'.remainingShares = 5
                   /\ res'.newCashBalance = 4250 * 100
                   /\ cash'[u] = 4250 * 100 /\ inv'[k].quantity = 5
      ]_vars

\* C29 witness: the flow has run to its end: the sale of 5 of the 10 shares
\* bought is answered, the account holds 4250.00 and the position 5 shares
C29_Witness ==
    /\ Answered("sell", "Sold") /\ res.remainingShares = 5
    /\ res.newCashBalance = 4250 * 100 /\ res.pricePerShare = 150 * 100
    /\ cash[TheUser] = 4250 * 100
    /\ inv[<<TheUser, FlowSymbol>>].quantity = 5
    /\ Len(log) = 2 /\ log[1].transactionType = "BUY" /\ log[1].quantity = 10
    /\ log[1].totalAmount = 1500 * 100

\* C30: Deadlock freedom of buy against sell.  No reachable state has a buy of
\* a held symbol holding its user's row lock and waiting for the position's row
\* lock while a sell of the same user holds that position's row lock and waits
\* for the user's row lock.
C30_NoLockCycle ==
    \A b, s \in Procs :
        LET u == req[b].userId
            k == <<u, Collated(req[b].symbol)>>
        IN  ~ /\ req[b].op = "buy" /\ pc[b] = "b_inv"
              /\ req[s].op = "sell" /\ pc[s] = "s_user" /\ req[s].userId = u
              /\ inv[k].id # 0 /\ loc[s].key = k
              /\ lock[UserRow(u)] = b /\ ~CanLock(b, InvRow(k))
              /\ lock[InvRow(k)] = s /\ ~CanLock(s, UserRow(u))

\* C31: Cash/log reconciliation.  After any sequence and any interleaving of
\* buyInvestment and sellInvestment calls (no deposits), every committed
\* cashBalance equals the initial cashBalance less the totalAmount of the
\* user's BUY records plus the totalAmount of the user's SELL records.
C31_CashReconciles == \A u \in Users : cash[u] = LedgerCash(u)

\* C31 witness: a sell has committed after a buy that committed while the sell
\* was running, and the account is not back at its initial balance
C31_Witness ==
    /\ Answered("sell", "Sold") /\ Len(log) = res.req.startLog + 2
    /\ log[Len(log) - 1].transactionType = "BUY" /\ log[Len(log) - 1].quantity = 2
    /\ log[Len(log)].transactionType = "SELL"
    /\ cash[TheUser] # InitCash

\* C32: Every transaction is finished exactly once.  When buyInvestment,
\* sellInvestment or createInvestment ends, on whatever path, its transaction
\* is committed or rolled back and not left open; and the catch block, which
\* calls rollback, is never entered with a transaction that is already
\* committed or rolled back.
C32_FinishedOnce ==
    [][\A p \in Procs :
        req[p].op \in {"buy", "sell", "create"} =>
            /\ pc'[p] = "idle" => tx'[p].st \in {"commit", "rollback"}
            /\ (pc[p] = "catch" /\ pc'[p] = "idle") => tx[p].st = "open"
      ]_vars

\* C33: Reads have no ledger effect.  No step of getAllInvestments,
\* getInvestmentById, getCashBalance or getTransactionHistory, also beside a
\* running buy or sell, changes a cashBalance, the records, the set of
\* position rows, or any field of a position row other than currentPrice.
C33_ReadsLeaveLedger ==
    [][\A p \in Procs :
        (req[p].op \in {"all", "byId", "cashBalance", "history"} /\ pc'[p] # pc[p]) =>
            /\ cash' = cash /\ log' = log /\ nextId' = nextId
            /\ \A k \in Keys :
                inv'[k] = [inv[k] EXCEPT !.currentPrice = inv'[k].currentPrice]
      ]_vars

\* C33 witness: getAllInvestments has stored a new currentPrice for a position
\* while a buy or a sell of the same user was running
C33_Witness ==
    /\ Answered("all", "Investments")
    /\ \E d \in res.data : d.currentPrice = PriceHigh
    /\ Len(log) = 1
    /\ inv[<<TheUser, TheSymbol>>].currentPrice = Round2Price(PriceHigh)
    /\ inv[<<TheUser, TheSymbol>>].purchasePrice = Round2Price(PriceLow)
    /\ \E q \in Procs : req[q].op \in {"buy", "sell"} /\ req[q].userId = TheUser

\* C34: Provenance of the fallback price.  A sell executes at the oracle's
\* answer or, when the oracle has no data, at the position's stored
\* currentPrice; that fallback is a price the oracle has returned for the
\* symbol, whatever reads came before the sell.  So every price a sell
\* executes at is a price the oracle can return for the symbol, to two
\* decimals.
C34_FallbackIsOraclePrice ==
    [][\A p \in Procs :
        (req[p].op = "sell" /\ pc[p] = "s_price" /\ pc'[p] = "s_user") =>
            loc'[p].price \in {Round2Price(x) : x \in Quotes(loc[p].key[2]) \cup {0}}
      ]_vars

\* C35: The stored average price is consistent with the cost basis.  After
\* every committed buyInvestment, creating or updating, and every committed
\* partial sell, the purchasePrice of the position equals its totalInvested
\* divided by its quantity, rounded to two decimals, also when the price has a
\* third decimal.
C35_AverageMatchesBasis ==
    [][\A p \in Procs :
        (Commits(p) /\ req[p].op \in {"buy", "sell"}) =>
            LET row == inv'[loc[p].key] IN
            row.id # 0 => row.purchasePrice = RoundDiv(row.totalInvested, row.quantity)
      ]_vars

\* C36: when updateCashBalance(a) and then updateCashBalance(b) were both
\* called before the header had loaded, the step in which the last pending
\* retry fires on the loaded header leaves b, the balance of the most recent
\* call, in the header
C36_LastUpdateWins ==
    [][(/\ RetryFire
        /\ headerLoader.headerLoaded /\ headerLoader.elements
        /\ Len(headerLoader.calls) = 2
        /\ \A i \in 1..2 : ~headerLoader.calls[i].loaded
        /\ headerLoader'.retries = <<>>)
       => headerLoader'.text = headerLoader.calls[2].newBalance]_vars

\* C37: in every run in which no timer is held back for ever, the retries of
\* updateCashBalance end: from some point on no retry timer is pending
C37_RetryEnds == <>[](headerLoader.retries = <<>>)

====
